---- MODULE Spec2Model ----
(***************************************************************************)
(* Surrogate-assisted Bayesian calibration scripts of                      *)
(* jskromer/bayesian-energy-calibration, as one state machine.             *)
(*                                                                         *)
(* Each behaviour is one run of one script, chosen in Init:                *)
(*   "sampler"     raven_enhancements/adaptive_sampling.py                 *)
(*                 (AdaptiveSampler.initialize_lhs, run_adaptive_sampling) *)
(*   "calibrator"  energyplus-mcp-server/bayesian_calibration_pymc.py      *)
(*                 (BayesianCalibrator, main)                              *)
(*   "step3"       energyplus-mcp-server/step3_bayesian_calibration.py     *)
(*                 (create_training_samples, main)                         *)
(*   "detector"    energyplus-mcp-server/fault_detection_bayesian.py       *)
(*                 (FaultDetector, main)                                   *)
(*                                                                         *)
(* Numbers are fixed point.  Parameter coordinates are integers in         *)
(* hundredths of the source's unit (0.5 is 50), energies are whole kWh.    *)
(* numpy's and scipy's generators are a deterministic stream (NextRng)     *)
(* started from a seed that Init draws; every random draw of the code      *)
(* consumes the next value of the stream.                                  *)
(***************************************************************************)
EXTENDS Integers, Sequences, FiniteSets, TLC

VARIABLES
    script,            \* which script this run executes
    pc,                \* position of the run in the script
    param_bounds,      \* self.param_bounds / param_ranges: [lower, upper] each
    rng,               \* state of the numpy / scipy random generator
    n_initial,         \* n_initial / n_initial_samples / n_samples argument
    max_iterations,    \* AdaptiveSampler.max_iterations
    strategy,          \* run_adaptive_sampling(strategy=...)
    samples,           \* the initial design being evaluated
    i,                 \* index of the next design point to simulate
    X_train,           \* self.X_train
    y_train,           \* self.y_train
    gp,                \* self.gp: None, or the fitted surrogate
    y_best,            \* AdaptiveSampler.y_best
    n_real_sims,       \* BayesianCalibrator.n_real_sims
    planned,           \* length of the range() the refinement loop iterates
    iteration,         \* acquisition / refinement iterations completed
    posterior_samples, \* az.extract(...) draws; rejection-sampling result
    gp_available,      \* GP_AVAILABLE: scikit-learn could be imported
    detect,            \* locals of the latest bayesian_fault_detection call
    results,           \* the DataFrame counterfactual_analysis returns
    acq,               \* an acquisition call: predictions, scores, index
    upload,            \* the CSV file given to parse_uploaded_data
    parsed,            \* what parse_uploaded_data returned
    dt_registry,       \* DigitalTwinABM.dt_registry
    tracking,          \* the rows of dtabm_tracking.csv and anomaly_log.csv
    mv_report,         \* the report written by calculate_mv_savings
    ecm_calls,         \* the ECM names of the implement_ecm calls that returned
    idf_files,         \* the IDF files of the twin: name and lighting power
    session_state,     \* st.session_state of the Streamlit app
    uploaded_file,     \* the file held by the app's file_uploader widget
    evaluations,       \* the simulator calls of the learning loops that
                       \* returned: point and energy, in call order
    decided_with,      \* the surrogate's training data behind the last choice
                       \* of a point, and the training data at that moment
    calls,             \* history: simulator invocation attempts so far
    last               \* history: outcome of the latest simulator attempt

vars == <<script, param_bounds, upload, parsed, decided_with, dt_registry,
         tracking, mv_report, ecm_calls, idf_files, session_state, uploaded_file,
         evaluations, acq, pc,
         rng, n_initial, max_iterations, strategy, samples, i,
          X_train, y_train, gp, y_best, n_real_sims, planned, iteration,
          posterior_samples, gp_available, detect, results, calls, last>>

detectorVars == <<gp_available, detect, results>>

uploadVars == <<upload, parsed>>

dtabmVars == <<dt_registry, tracking, mv_report, ecm_calls, idf_files>>

appVars == <<session_state, uploaded_file>>

----------------------------------------------------------------------------
(* Bounds of the model *)

MaxSeed == 2          \* seeds 0..MaxSeed of the random stream
MaxInitial == 2       \* n_initial ranges over 0..MaxInitial (and the default)
MaxIter == 2          \* max_iterations ranges over 0..MaxIter
MaxOutcome == 2       \* the sampler's simulator returns 1..MaxOutcome
SubRes == 2           \* resolution of a uniform offset inside an LHS stratum
UnitRes == 3          \* resolution of a uniform draw in [0, 1)
NCandidates == 2      \* n_candidates of run_adaptive_sampling
ThetaRes == 16        \* resolution of a restart's starting point

None == "None"

(* An optional value: <<>> is Python's None, <<v>> holds v. *)
Some(v) == <<v>>
Nothing == <<>>

----------------------------------------------------------------------------
(* Helpers *)

Min2(a, b) == IF a < b THEN a ELSE b

SeqMin(s) == CHOOSE m \in {s[k] : k \in 1..Len(s)} :
                 \A k \in 1..Len(s) : m <= s[k]

IsPrefix(s, t) == Len(s) <= Len(t) /\ \A k \in 1..Len(s) : s[k] = t[k]

(* The random generator: one step of the stream, and the stream k steps on. *)
NextRng(s) == (5 * s + 3) % 16

(* seeding the generator *)
SeedRng(seed) == seed % 16

RECURSIVE RngSteps(_, _)
RngSteps(s, k) == IF k = 0 THEN s ELSE RngSteps(NextRng(s), k - 1)

(* the stream has period 16, so k steps are k % 16 steps *)
RngAt(s, k) == RngSteps(s, k % 16)

(* floor(u * res) for the draw u in [0, 1) that generator state s yields *)
RandBelow(s, res) == (s * res) \div 16

----------------------------------------------------------------------------
(* Parameter spaces (hundredths of the source's units) *)

\* compare_sampling_strategies: wall_r, window_u, infiltration
sampler_param_bounds == << <<1000, 2000>>, <<25, 45>>, <<20, 60>> >>

\* BayesianCalibrator.param_bounds: r_value_mult, thermostat_setpoint,
\* infiltration_mult
calibrator_param_bounds == << <<60, 140>>, <<6800, 7600>>, <<50, 200>> >>

Strategies == {"uncertainty", "ei", "ucb"}

(* lb + u * (ub - lb) for the unit sample u = num / den *)
ScaleWithoutOffset(lb, ub, num, den) == lb + (num * ub) \div den
ScaleToBounds(lb, ub, num, den) == lb + (num * (ub - lb)) \div den

(* every coordinate of v inside its [lower, upper], inclusive *)
InBounds(v, bounds) ==
    /\ Len(v) = Len(bounds)
    /\ \A j \in 1..Len(bounds) : bounds[j][1] <= v[j] /\ v[j] <= bounds[j][2]

(* rng.shuffle: Fisher-Yates from the last position down *)
RECURSIVE Shuffle(_, _, _)
Shuffle(p, k, s) ==
    IF k <= 1 THEN [perm |-> p, rng |-> s]
    ELSE LET s1 == NextRng(s)
             j == 1 + RandBelow(s1, k)
         IN  Shuffle([p EXCEPT ![k] = p[j], ![j] = p[k]], k - 1, s1)

(* one shuffled arange(1, n + 1) per dimension *)
RECURSIVE Perms(_, _, _)
Perms(n, d, s) ==
    IF d = 0 THEN [perms |-> <<>>, rng |-> s]
    ELSE LET rest == Perms(n, d - 1, s)
             sh == Shuffle([k \in 1..n |-> k], n, rest.rng)
         IN  [perms |-> Append(rest.perms, sh.perm), rng |-> sh.rng]

(* n independent uniform points: numerators over n * SubRes, no strata *)
UniformDesign(n, d, s) ==
    [unit |-> [a \in 1..n |-> [j \in 1..d |->
                 1 + RandBelow(RngAt(s, (a - 1) * d + j), n * SubRes)]],
     rng |-> RngAt(s, n * d)]

(* scipy.stats.qmc.LatinHypercube(d).random(n): the unit sample of point a  *)
(* in dimension j is (perm_j[a] - u) / n with u uniform in [0, 1); the      *)
(* result holds its numerator over the denominator n * SubRes.              *)
LatinHypercube(n, d, s) ==
    LET s1 == RngAt(s, n * d)
        P == Perms(n, d, s1)
    IN  [unit |-> [a \in 1..n |-> [j \in 1..d |->
                     P.perms[j][a] * SubRes
                       - RandBelow(RngAt(s, (a - 1) * d + j), SubRes)]],
         rng |-> P.rng]

(* samples[:, i] = lb + samples[:, i] * (ub - lb), per dimension *)
ScaledDesign(n, bounds, s) ==
    LET L == LatinHypercube(n, Len(bounds), s)
    IN  [samples |-> [a \in 1..n |-> [j \in 1..Len(bounds) |->
                        ScaleToBounds(bounds[j][1], bounds[j][2],
                                      L.unit[a][j], n * SubRes)]],
         rng |-> L.rng]

(* np.random.uniform(lb, ub) from generator state s *)
UniformDraw(lb, ub, s) == ScaleToBounds(lb, ub, RandBelow(s, UnitRes), UnitRes)

(* the candidate pool of one iteration: n_candidates points, one uniform   *)
(* draw per parameter each                                                  *)
CandidatePool(bounds, s) ==
    [c \in 1..NCandidates |-> [j \in 1..Len(bounds) |->
        UniformDraw(bounds[j][1], bounds[j][2],
                    RngAt(s, (c - 1) * Len(bounds) + j))]]

n_restarts_optimizer == 10

(* the starting points of the optimizer's restarts: GaussianProcessRegressor *)
(* is built without random_state, so they are drawn from numpy's global      *)
(* generator, in state s when fit is called                                  *)
RestartStarts(s) ==
    [k \in 1..n_restarts_optimizer |-> 1 + RandBelow(RngAt(s, k), ThetaRes)]

(* the generator after a fit *)
AfterFit(s) == RngAt(s, n_restarts_optimizer)

(* the hyperparameters fit keeps are those of the best of the optimizer's  *)
(* runs: the run from the kernel's initial theta (0) and the restarts.     *)
(* A run's optimum is named by its starting point, and the later a         *)
(* starting point lies in the search interval the better it is taken to be *)
BestTheta(starts) ==
    CHOOSE t \in {0} \cup {starts[k] : k \in 1..Len(starts)} :
        \A k \in 1..Len(starts) : starts[k] <= t

(* _update_gp / _fit_gp: a fresh regressor fit on the current training data *)
FitGp(X, y, s) ==
    [kind |-> "gp", X |-> X, y |-> y, theta |-> BestTheta(RestartStarts(s))]

(* np.vstack([self.X_train, point]) / self.X_train.append(point), and      *)
(* np.append(self.y_train, energy) / self.y_train.append(energy)           *)
VStackFront(X, point) == <<point>> \o X
VStack(X, point) == Append(X, point)

PrependEnergy(y, energy) == <<energy>> \o y
AppendEnergy(y, energy) == Append(y, energy)

(* the strategies run_adaptive_sampling dispatches on *)
AnyStrategy(s) == TRUE
KnownStrategy(s) == s \in Strategies

(* self.gp = None *)
NoGp == [kind |-> "None", X |-> <<>>, y |-> <<>>]

(* a point chosen by a surrogate (or by a posterior sampled on it) fit on  *)
(* (X, y), at a moment when the training data are (atX, atY)               *)
NoDecision == [made |-> FALSE, X |-> <<>>, y |-> <<>>, atX |-> <<>>, atY |-> <<>>]
Decision(model, X, y) ==
    [made |-> TRUE, X |-> model.X, y |-> model.y, atX |-> X, atY |-> y]

(* What the simulator callable of AdaptiveSampler can do with a point:      *)
(* return an energy (noisy, so any of the values) or raise.                 *)
SimulatorOutcomes ==
    {[ok |-> TRUE, energy |-> e] : e \in 1..MaxOutcome}
        \cup {[ok |-> FALSE, energy |-> 0]}

----------------------------------------------------------------------------
(* AdaptiveSampler (script "sampler") *)

(* y_best after one more observation *)
UpdateBestInverted(best, energy) == IF energy > best THEN energy ELSE best
UpdateBest(best, energy) == IF energy < best THEN energy ELSE best

(* initialize_lhs up to its first simulator call: draw and scale the design. *)
(* With n_initial = 0 the loop is empty and y_train.min() raises.            *)
InitializeLhs ==
    /\ script = "sampler" /\ pc = "idle"
    /\ LET D == ScaledDesign(n_initial, param_bounds, rng)
       IN  /\ samples' = D.samples
           /\ rng' = D.rng
    /\ i' = 0
    /\ pc' = IF n_initial = 0 THEN "aborted" ELSE "lhs"
    /\ UNCHANGED <<detectorVars, script, param_bounds, uploadVars, dtabmVars, appVars, evaluations, decided_with, acq, n_initial, max_iterations, strategy, X_train,
                   y_train, gp, y_best, n_real_sims, planned, iteration,
                   posterior_samples, calls, last>>

(* one pass of the loop of initialize_lhs; the last pass also converts the  *)
(* lists, sets y_best and fits the initial GP                               *)
LhsSimulate ==
    /\ script = "sampler" /\ pc = "lhs" /\ i < Len(samples)
    /\ calls' = calls + 1
    /\ \E out \in SimulatorOutcomes :
         IF ~out.ok
         THEN /\ last' = "fail" /\ UNCHANGED evaluations
              /\ pc' = "aborted"
              /\ UNCHANGED <<i, X_train, y_train, gp, y_best, rng>>
         ELSE /\ last' = "ok"
              /\ evaluations' = Append(evaluations, [x |-> samples[i + 1], energy |-> out.energy])
              /\ X_train' = VStack(X_train, samples[i + 1])
              /\ y_train' = AppendEnergy(y_train, out.energy)
              /\ i' = i + 1
              /\ IF i + 1 = Len(samples)
                 THEN /\ y_best' = Some(SeqMin(y_train'))
                      /\ gp' = FitGp(X_train', y_train', rng)
                      /\ rng' = AfterFit(rng)
                      /\ pc' = "ready"
                 ELSE UNCHANGED <<gp, y_best, pc, rng>>
    /\ UNCHANGED <<detectorVars, script, param_bounds, uploadVars, dtabmVars, appVars, decided_with, acq, n_initial, max_iterations, strategy, samples,
                   n_real_sims, planned, iteration, posterior_samples>>

(* run_adaptive_sampling(strategy) up to its loop:                         *)
(* range(self.max_iterations)                                              *)
RunAdaptiveSampling ==
    /\ script = "sampler" /\ pc = "ready"
    /\ strategy' \in Strategies \cup {"random"}
    /\ planned' = max_iterations
    /\ iteration' = 0
    /\ pc' = IF max_iterations = 0 THEN "done" ELSE "iterating"
    /\ UNCHANGED <<detectorVars, script, param_bounds, uploadVars, dtabmVars, appVars, evaluations, decided_with, acq, rng, n_initial, max_iterations, samples,
                   i, X_train, y_train, gp, y_best, n_real_sims,
                   posterior_samples, calls, last>>

(* one pass of the loop of run_adaptive_sampling: candidate pool,           *)
(* acquisition, simulation, training-data update, best update, GP refit.    *)
(* The acquisition functions score the pool with the fitted GP; the index   *)
(* they return is any index of the pool.                                    *)
AdaptiveIteration ==
    /\ script = "sampler" /\ pc = "iterating" /\ iteration < planned
    /\ LET X_candidates == CandidatePool(param_bounds, rng)
           drawn == RngAt(rng, NCandidates * Len(param_bounds))
       IN  IF ~KnownStrategy(strategy)
           THEN \* raise ValueError(f"Unknown strategy: {strategy}")
                /\ pc' = "aborted"
                /\ rng' = drawn
                /\ UNCHANGED <<X_train, y_train, gp, y_best, iteration,
                               calls, last, decided_with, evaluations>>
           ELSE \E next_idx \in 1..NCandidates :
                \E out \in SimulatorOutcomes :
                  /\ decided_with' = Decision(gp, X_train, y_train)
                  /\ calls' = calls + 1
                  /\ IF ~out.ok
                     THEN /\ last' = "fail" /\ UNCHANGED evaluations
                          /\ pc' = "aborted"
                          /\ rng' = drawn
                          /\ UNCHANGED <<X_train, y_train, gp, y_best,
                                         iteration>>
                     ELSE /\ last' = "ok"
                          /\ evaluations' =
                                Append(evaluations,
                                       [x |-> X_candidates[next_idx],
                                        energy |-> out.energy])
                          /\ X_train' = VStack(X_train, X_candidates[next_idx])
                          /\ y_train' = AppendEnergy(y_train, out.energy)
                          /\ y_best' = Some(UpdateBest(y_best[1], out.energy))
                          /\ gp' = FitGp(X_train', y_train', drawn)
                          /\ rng' = AfterFit(drawn)
                          /\ iteration' = iteration + 1
                          /\ pc' = IF iteration + 1 = planned
                                   THEN "done" ELSE "iterating"
    /\ UNCHANGED <<detectorVars, script, param_bounds, uploadVars, dtabmVars, appVars, acq, n_initial, max_iterations, strategy, samples, i,
                   n_real_sims, planned, posterior_samples>>

----------------------------------------------------------------------------
(* BayesianCalibrator of bayesian_calibration_pymc.py (script "calibrator") *)

max_real_sims == 20            \* self.max_real_sims
DefaultInitialSamples == 10    \* initialize_gp_surrogate(n_initial_samples=10)
RefinementCap == 10            \* range(min(10, ...)) of the refinement loop
NumExtracted == 20             \* az.extract(trace, num_samples=20)

(* The EnergyPlus run behind manager.run_simulation: a deterministic        *)
(* simulator.  run_mcp_simulation applies only the infiltration multiplier  *)
(* to the IDF, so the annual energy is a function of that coordinate.       *)
EnergyPlus(infiltration_mult) == 650000 + 650 * infiltration_mult

(* self.n_real_sims += 1, the first statement of run_mcp_simulation: it     *)
(* runs whether the attempt then returns (ok) or raises                     *)
SimsAfterSuccess(n, ok) == IF ok THEN n + 1 ELSE n
SimsAfterAttempt(n, ok) == n + 1

(* range(min(10, self.max_real_sims - self.n_real_sims)) *)
RefinementRangeUncapped(n) ==
    IF max_real_sims - n < 0 THEN 0 ELSE max_real_sims - n
RefinementRange(n) ==
    LET m == Min2(RefinementCap, max_real_sims - n)
    IN  IF m < 0 THEN 0 ELSE m

(* az.extract(trace, num_samples=20): draws of the three parameters, each   *)
(* inside the support of its truncated / uniform prior                      *)
ExtractPosterior(bounds, s) ==
    [k \in 1..NumExtracted |-> [j \in 1..Len(bounds) |->
        ScaleToBounds(bounds[j][1], bounds[j][2],
                      RandBelow(RngAt(s, (k - 1) * Len(bounds) + j),
                                UnitRes + 1),
                      UnitRes)]]

(* np.sum *)
RECURSIVE SeqSum(_)
SeqSum(s) == IF s = <<>> THEN 0 ELSE s[1] + SeqSum(Tail(s))

(* initialize_gp_surrogate up to its first simulation: draw and scale the   *)
(* design.  With no sample the loop is empty and gp.fit raises on the empty *)
(* training array.                                                          *)
InitializeGpSurrogate ==
    /\ script = "calibrator" /\ pc = "idle"
    /\ LET D == ScaledDesign(n_initial, calibrator_param_bounds, rng)
       IN  /\ samples' = D.samples
           /\ rng' = D.rng
    /\ i' = 0
    /\ pc' = IF n_initial = 0 THEN "aborted" ELSE "lhs"
    /\ UNCHANGED <<detectorVars, script, param_bounds, uploadVars, dtabmVars, appVars, evaluations, decided_with, acq, n_initial, max_iterations, strategy, X_train,
                   y_train, gp, y_best, n_real_sims, planned, iteration,
                   posterior_samples, calls, last>>

(* one pass of the loop of initialize_gp_surrogate: run_mcp_simulation on   *)
(* the next design point; the last pass also fits the initial GP            *)
GpInitSimulate ==
    /\ script = "calibrator" /\ pc = "lhs" /\ i < Len(samples)
    /\ calls' = calls + 1
    /\ \E ok \in BOOLEAN :
         /\ n_real_sims' = SimsAfterAttempt(n_real_sims, ok)
         /\ IF ~ok
            THEN /\ last' = "fail" /\ UNCHANGED evaluations
                 /\ pc' = "aborted"
                 /\ UNCHANGED <<i, X_train, y_train, gp, rng>>
            ELSE /\ last' = "ok"
                 /\ evaluations' = Append(evaluations, [x |-> samples[i + 1], energy |-> EnergyPlus(samples[i + 1][3])])
                 /\ X_train' = VStack(X_train, samples[i + 1])
                 /\ y_train' = AppendEnergy(y_train, EnergyPlus(samples[i + 1][3]))
                 /\ i' = i + 1
                 /\ IF i + 1 = Len(samples)
                    THEN /\ gp' = FitGp(X_train', y_train', rng)
                         /\ rng' = AfterFit(rng)
                         /\ pc' = "ready"
                    ELSE UNCHANGED <<gp, pc, rng>>
    /\ UNCHANGED <<detectorVars, script, param_bounds, uploadVars, dtabmVars, appVars, decided_with, acq, n_initial, max_iterations, strategy, samples,
                   y_best, planned, iteration, posterior_samples>>

(* run_bayesian_inference up to its refinement loop: MCMC on the surrogate, *)
(* 20 posterior draws extracted, the loop's range evaluated once            *)
RunBayesianInference ==
    /\ script = "calibrator" /\ pc = "ready"
    /\ posterior_samples' = ExtractPosterior(calibrator_param_bounds, rng)
    /\ rng' = RngAt(rng, NumExtracted * Len(calibrator_param_bounds))
    /\ planned' = RefinementRange(n_real_sims)
    /\ iteration' = 0
    /\ decided_with' = Decision(gp, X_train, y_train)
    /\ pc' = IF planned' = 0 THEN "inferred" ELSE "refining"
    /\ UNCHANGED <<detectorVars, script, param_bounds, uploadVars, dtabmVars, appVars, evaluations, acq, n_initial, max_iterations, strategy, samples, i,
                   X_train, y_train, gp, y_best, n_real_sims, calls, last>>

(* one pass of the refinement loop: simulate posterior draw i, append it to *)
(* the training set, refit the GP                                           *)
RefineGp ==
    /\ script = "calibrator" /\ pc = "refining" /\ iteration < planned
    /\ calls' = calls + 1
    /\ decided_with' = [decided_with EXCEPT !.atX = X_train, !.atY = y_train]
    /\ \E ok \in BOOLEAN :
         /\ n_real_sims' = SimsAfterAttempt(n_real_sims, ok)
         /\ LET param_array == posterior_samples[iteration + 1]
            IN  IF ~ok
                THEN /\ last' = "fail" /\ UNCHANGED evaluations
                     /\ pc' = "aborted"
                     /\ UNCHANGED <<X_train, y_train, gp, iteration, rng>>
                ELSE /\ last' = "ok"
                     /\ evaluations' = Append(evaluations, [x |-> param_array, energy |-> EnergyPlus(param_array[3])])
                     /\ X_train' = VStack(X_train, param_array)
                     /\ y_train' = AppendEnergy(y_train, EnergyPlus(param_array[3]))
                     /\ gp' = FitGp(X_train', y_train', rng)
                     /\ rng' = AfterFit(rng)
                     /\ iteration' = iteration + 1
                     /\ pc' = IF iteration + 1 = planned
                              THEN "inferred" ELSE "refining"
    /\ UNCHANGED <<detectorVars, script, param_bounds, uploadVars, dtabmVars, appVars, acq, n_initial, max_iterations, strategy, samples,
                   i, y_best, planned, posterior_samples>>

(* analyze_results: the final validation simulation at the posterior means *)
AnalyzeResults ==
    /\ script = "calibrator" /\ pc = "inferred"
    /\ calls' = calls + 1
    /\ \E ok \in BOOLEAN :
         /\ n_real_sims' = SimsAfterAttempt(n_real_sims, ok)
         /\ last' = IF ok THEN "ok" ELSE "fail"
         /\ pc' = IF ok THEN "done" ELSE "aborted"
    /\ UNCHANGED <<detectorVars, script, param_bounds, uploadVars, dtabmVars, appVars, evaluations, decided_with, acq, rng, n_initial, max_iterations, strategy, samples,
                   i, X_train, y_train, gp, y_best, planned, iteration,
                   posterior_samples>>

----------------------------------------------------------------------------
(* step3_bayesian_calibration.py (script "step3") *)

Step3Samples == 8        \* create_training_samples(n_samples=8)
Step3Seed == 42          \* qmc.LatinHypercube(d=3, seed=42)
MinTrainingRuns == 5     \* main: if len(training_data) < 5: return

\* param_ranges: building_scale, infiltration_mult, plug_load_mult
step3_param_ranges == << <<300, 700>>, <<50, 200>>, <<80, 150>> >>

(* the annual energy EnergyPlus reports for a calibration sample: the loads *)
(* scale with building_scale and plug_load_mult, the rest with infiltration *)
Step3Energy(params) ==
    (400 * params[1] * params[3]) \div 100 + EnergyPlus(params[2]) \div 10

(* create_training_samples up to its first simulation: the seeded design *)
CreateTrainingSamples ==
    /\ script = "step3" /\ pc = "idle"
    /\ LET D == ScaledDesign(n_initial, step3_param_ranges, SeedRng(Step3Seed))
       IN  /\ samples' = D.samples
           /\ rng' = D.rng
    /\ i' = 0
    /\ pc' = IF n_initial = 0 THEN "trained" ELSE "lhs"
    /\ UNCHANGED <<detectorVars, script, param_bounds, uploadVars, dtabmVars, appVars, evaluations, decided_with, acq, n_initial, max_iterations, strategy,
                   X_train, y_train, gp, y_best, n_real_sims, planned,
                   iteration, posterior_samples, calls, last>>

(* one pass of the loop of create_training_samples: run_simulation returns  *)
(* the energy or None; a sample without energy is reported and left out     *)
Step3Simulate ==
    /\ script = "step3" /\ pc = "lhs" /\ i < Len(samples)
    /\ calls' = calls + 1
    /\ i' = i + 1
    /\ pc' = IF i + 1 = Len(samples) THEN "trained" ELSE "lhs"
    /\ \E ok \in BOOLEAN :
         IF ok
         THEN /\ last' = "ok"
              /\ X_train' = VStack(X_train, samples[i + 1])
              /\ y_train' = AppendEnergy(y_train, Step3Energy(samples[i + 1]))
         ELSE /\ last' = "fail"
              /\ UNCHANGED <<X_train, y_train>>
    /\ UNCHANGED <<detectorVars, script, param_bounds, uploadVars, dtabmVars, appVars, evaluations, decided_with, acq, rng, n_initial, max_iterations,
                   strategy, samples, gp, y_best, n_real_sims, planned,
                   iteration, posterior_samples>>

(* main: if len(training_data) < 5 *)
TooFewRunsOffByOne(n) == n < MinTrainingRuns - 1
TooFewRuns(n) == n < MinTrainingRuns

(* main after create_training_samples: give up below 5 successful runs,    *)
(* else build_surrogate_model fits the GP                                   *)
Step3BuildSurrogate ==
    /\ script = "step3" /\ pc = "trained"
    /\ IF TooFewRuns(Len(y_train))
       THEN pc' = "returned" /\ UNCHANGED <<gp, rng>>
       ELSE /\ pc' = "fitted"
            /\ gp' = FitGp(X_train, y_train, rng)
            /\ rng' = AfterFit(rng)
    /\ UNCHANGED <<detectorVars, script, param_bounds, uploadVars, dtabmVars, appVars, evaluations, decided_with, acq, n_initial, max_iterations,
                   strategy, samples, i, X_train, y_train, y_best,
                   n_real_sims, planned, iteration, posterior_samples, calls,
                   last>>

----------------------------------------------------------------------------
(* FaultDetector of fault_detection_bayesian.py (script "detector") *)

DetectorSamples == 8       \* build_surrogate_model(n_samples=8)
ProposalFactor == 10       \* size=n_posterior_samples * 10
observation_noise == 5000  \* kWh
MaxPosterior == 2          \* n_posterior_samples ranges over 0..MaxPosterior

\* Uniform(0.5, 2.0) prior on the infiltration multiplier
infiltration_range == <<50, 200>>

\* utility-bill energies a run is given: the baseline, main's 750000, one
\* outside the surrogate's range and one so far outside that every
\* likelihood underflows
ObservedEnergies == {715000, 750000, 900000, 1000000}

Abs(a) == IF a < 0 THEN 0 - a ELSE a

SeqMax(s) == CHOOSE m \in {s[k] : k \in 1..Len(s)} :
                 \A k \in 1..Len(s) : m >= s[k]

(* np.linspace(lo, hi, n) *)
Linspace(lo, hi, n) ==
    [k \in 1..n |-> IF n = 1 THEN lo ELSE lo + ((hi - lo) * (k - 1)) \div (n - 1)]

(* SimpleInterpolator(X, y): the training data sorted by X *)
RECURSIVE SortByX(_)
SortByX(pts) ==
    IF pts = {} THEN <<>>
    ELSE LET m == CHOOSE q \in pts : \A r \in pts : q[1] <= r[1]
         IN  <<m>> \o SortByX(pts \ {m})

SimpleInterpolator(X, y) ==
    LET sorted == SortByX({<<X[k][1], y[k], k>> : k \in 1..Len(X)})
    IN  [kind |-> "interp",
         X |-> [k \in 1..Len(sorted) |-> <<sorted[k][1]>>],
         y |-> [k \in 1..Len(sorted) |-> sorted[k][2]]]

(* np.interp(x, xp, fp): fp at the ends outside [xp[0], xp[-1]], the line   *)
(* through the bracketing points inside                                     *)
Interp(x, xp, fp) ==
    IF x <= xp[1][1] THEN fp[1]
    ELSE IF x >= xp[Len(xp)][1] THEN fp[Len(fp)]
    ELSE LET k == CHOOSE k \in 1..(Len(xp) - 1) :
                      xp[k][1] <= x /\ x < xp[k + 1][1]
         IN  fp[k] + ((fp[k + 1] - fp[k]) * (x - xp[k][1]))
                        \div (xp[k + 1][1] - xp[k][1])

(* the mean of self.gp.predict at x.  The fitted GaussianProcessRegressor   *)
(* (alpha = 1e-6) reproduces its training data; between training inputs its *)
(* mean is taken along the line through the neighbouring training points.   *)
PredictMean(model, x) ==
    IF model.kind = "interp" THEN Interp(x, model.X, model.y)
    ELSE LET m == SimpleInterpolator(model.X, model.y)
         IN  Interp(x, m.X, m.y)

(* np.exp(-x) is 0.0 in float64 once x exceeds 745.13: in eighths *)
UnderflowEighths == 5961

(* 1000 * exp(-d / 8) for d = 0, 1, ...; below a thousandth past the table *)
ExpTable ==
    <<1000, 882, 779, 687, 607, 535, 472, 417, 368, 325, 287, 253, 223, 197,
      174, 153, 135, 119, 105, 93, 82, 72, 64, 56, 50, 44, 39, 34, 30, 27,
      24, 21, 18, 16, 14, 13, 11, 10, 9, 8, 7, 6, 5, 5, 4, 4, 3, 3, 2, 2, 2,
      2, 2, 1, 1, 1, 1>>

ExpEighths(d) == IF d + 1 > Len(ExpTable) THEN 0 ELSE ExpTable[d + 1]

(* np.exp(-0.5 * ((prediction - observed) / observation_noise) ** 2), kept  *)
(* on a log scale: with z = h / 2 (h half-sigmas) the exponent is h^2 / 8;  *)
(* 0 is the float 0.0 of an underflow, and v > 0 stands for                 *)
(* exp((v - 1 - UnderflowEighths) / 8), so that 1.0 is UnderflowEighths + 1 *)
Likelihood(prediction, observed) ==
    LET h == (2 * Abs(prediction - observed)) \div observation_noise
    IN  IF h * h > UnderflowEighths THEN 0 ELSE UnderflowEighths + 1 - h * h

(* np.random.rand() < likelihood / likelihood.max() for the draw r / UnitRes: *)
(* the quotient is exp(-(max - lik) / 8), 0.0 for a likelihood of 0.0, and    *)
(* NaN (the comparison False) with likelihood.max() = 0.0                     *)
AcceptedUnnormalised(r, lik, all) ==
    /\ lik > 0
    /\ r = 0 \/ r * 1000 < UnitRes * ExpEighths(UnderflowEighths + 1 - lik)
Accepted(r, lik, all) ==
    /\ SeqMax(all) > 0
    /\ lik > 0
    /\ r = 0 \/ r * 1000 < UnitRes * ExpEighths(SeqMax(all) - lik)

(* the boolean-mask selection without the [:n] slice *)
RECURSIVE SelectAll(_, _, _)
SelectAll(xs, mask, n) ==
    IF xs = <<>> THEN <<>>
    ELSE IF mask[1] THEN <<xs[1]>> \o SelectAll(Tail(xs), Tail(mask), n)
    ELSE SelectAll(Tail(xs), Tail(mask), n)

(* prior_samples[accepted][:n] *)
RECURSIVE Select(_, _, _)
Select(xs, mask, n) ==
    IF xs = <<>> \/ n = 0 THEN <<>>
    ELSE IF mask[1] THEN <<xs[1]>> \o Select(Tail(xs), Tail(mask), n - 1)
    ELSE Select(Tail(xs), Tail(mask), n)

(* SimpleInterpolator.predict(X_new, return_std=True): the distance from x *)
(* to the nearest training input xp[k], in hundredths                      *)
NearestDistance(x, xp) ==
    CHOOSE d \in {Abs(x - xp[k][1]) : k \in 1..Len(xp)} :
        \A k \in 1..Len(xp) : d <= Abs(x - xp[k][1])

(* ... and std = 5000 * (1 + distances * 5), which is 5000 + 250 per       *)
(* hundredth of distance                                                   *)
InterpolatorStdOfFarthest(x, xp) ==
    5000 + 250 * SeqMax([k \in 1..Len(xp) |-> Abs(x - xp[k][1])])
InterpolatorStd(x, xp) == 5000 + 250 * NearestDistance(x, xp)

(* the training inputs after a posterior estimate: the estimate only     *)
(* reads self.gp, and what it returns goes to the caller                  *)
TrainingWithPosterior(X, posterior) ==
    X \o [k \in 1..Len(posterior) |-> <<posterior[k]>>]
TrainingAfterEstimate(X, posterior) == X

NoDetection ==
    [observed |-> 0, prior_samples |-> <<>>, predictions |-> <<>>,
     std |-> <<>>, likelihood |-> <<>>, rand |-> <<>>, accepted |-> <<>>]

(* build_surrogate_model up to its first simulation *)
BuildSurrogateModel ==
    /\ script = "detector" /\ pc = "idle"
    /\ samples' = [k \in 1..n_initial |->
                     <<Linspace(infiltration_range[1], infiltration_range[2],
                                n_initial)[k]>>]
    /\ i' = 0
    \* with no sample the summary's self.y_train.min() raises
    /\ pc' = IF n_initial = 0 THEN "aborted" ELSE "lhs"
    /\ gp' = IF n_initial = 0 /\ ~gp_available
             THEN SimpleInterpolator(<<>>, <<>>) ELSE gp
    /\ UNCHANGED <<detectorVars, script, param_bounds, uploadVars, dtabmVars, appVars, evaluations, decided_with, acq, rng, n_initial, max_iterations,
                   strategy, X_train, y_train, y_best, n_real_sims, planned,
                   iteration, posterior_samples, calls, last>>

(* one pass of the loop of build_surrogate_model: run_mcp_simulation at the *)
(* next multiplier; the last pass also fits the GP or the interpolator      *)
DetectorSimulate ==
    /\ script = "detector" /\ pc = "lhs" /\ i < Len(samples)
    /\ calls' = calls + 1
    /\ \E ok \in BOOLEAN :
         IF ~ok
         THEN /\ last' = "fail"
              /\ pc' = "aborted"
              /\ UNCHANGED <<i, X_train, y_train, gp, rng>>
         ELSE /\ last' = "ok"
              /\ X_train' = VStack(X_train, samples[i + 1])
              /\ y_train' = AppendEnergy(y_train, EnergyPlus(samples[i + 1][1]))
              /\ i' = i + 1
              /\ IF i + 1 = Len(samples)
                 THEN /\ gp' = IF gp_available
                                THEN FitGp(X_train', y_train', rng)
                                ELSE SimpleInterpolator(X_train', y_train')
                      /\ rng' = IF gp_available THEN AfterFit(rng) ELSE rng
                      /\ pc' = "ready"
                 ELSE UNCHANGED <<gp, pc, rng>>
    /\ UNCHANGED <<detectorVars, script, param_bounds, uploadVars, dtabmVars, appVars, evaluations, decided_with, acq, n_initial, max_iterations,
                   strategy, samples, y_best, n_real_sims, planned, iteration,
                   posterior_samples>>

(* bayesian_fault_detection(observed_energy, n_posterior_samples): uniform  *)
(* proposals, surrogate predictions, likelihoods, rejection sampling.  With *)
(* no proposal likelihood.max() raises.  Each array is bound once it is     *)
(* computed, as the source's local variables are.                           *)
BayesianFaultDetection ==
    /\ script = "detector" /\ pc \in {"ready", "detected"}
    /\ \E observed_energy \in ObservedEnergies :
       \E n_posterior_samples \in 0..MaxPosterior :
         LET size == n_posterior_samples * ProposalFactor
         IN  IF size = 0
             THEN /\ pc' = "aborted"
                  /\ rng' = rng
                  /\ UNCHANGED <<detect, posterior_samples>>
             ELSE \E prior \in {[k \in 1..size |->
                         UniformDraw(infiltration_range[1],
                                     infiltration_range[2], RngAt(rng, k))]} :
                  \E preds \in {[k \in 1..size |-> PredictMean(gp, prior[k])]} :
                  \* gp_std: the interpolator's; the regressor's is not modelled
                  \E gp_std \in {IF gp.kind = "interp"
                                  THEN [k \in 1..size |->
                                           InterpolatorStd(prior[k], gp.X)]
                                  ELSE <<>>} :
                  \E lik \in {[k \in 1..size |->
                                 Likelihood(preds[k], observed_energy)]} :
                  \E rand \in {[k \in 1..size |->
                                 RandBelow(RngAt(rng, size + k), UnitRes)]} :
                  \E acc \in {[k \in 1..size |->
                                 Accepted(rand[k], lik[k], lik)]} :
                  /\ pc' = "detected"
                  /\ rng' = RngAt(rng, 2 * size)
                  /\ detect' = [observed |-> observed_energy,
                                prior_samples |-> prior,
                                predictions |-> preds,
                                std |-> gp_std,
                                likelihood |-> lik,
                                rand |-> rand,
                                accepted |-> acc]
                  /\ posterior_samples' = Select(prior, acc, n_posterior_samples)
    /\ X_train' = TrainingAfterEstimate(X_train, posterior_samples')
    /\ UNCHANGED <<gp_available, results, script, param_bounds, uploadVars, dtabmVars, appVars, evaluations, decided_with, acq, n_initial, max_iterations,
                   strategy, samples, i, y_train, gp, y_best,
                   n_real_sims, planned, iteration, calls, last>>

\* the infiltration multiplier of the building without the fault: 1.0
nominal_infiltration == 100

\* $/kWh in cents: the default 0.10, main's 0.12 and nj_electricity_rate
ElectricityRates == {10, 12, 15}

(* energy_savings = faulty_energy - fixed_energy *)
EnergySavingsSwapped(faulty_energy, fixed_energy) == fixed_energy - faulty_energy
EnergySavings(faulty_energy, fixed_energy) == faulty_energy - fixed_energy

(* one row of the results DataFrame: the sample, the surrogate's energy at  *)
(* it and at the fixed building, their difference and its cost in cents    *)
ResultRow(model, sample, electricity_rate) ==
    LET faulty == PredictMean(model, sample)
        fixed == PredictMean(model, nominal_infiltration)
    IN  [infiltration_mult |-> sample,
         faulty_energy_kwh |-> faulty,
         fixed_energy_kwh |-> fixed,
         energy_savings_kwh |-> EnergySavings(faulty, fixed),
         cost_savings_usd |-> EnergySavings(faulty, fixed) * electricity_rate]

(* counterfactual_analysis(posterior_samples, electricity_rate) as main     *)
(* calls it on what bayesian_fault_detection returned.  With no posterior   *)
(* sample the regressor's predict raises on the empty array, while the      *)
(* interpolator returns an empty frame whose np.percentile summary raises   *)
(* or yields nan, depending on the numpy installed.                         *)
CounterfactualAnalysis ==
    /\ script = "detector" /\ pc = "detected"
    /\ \E electricity_rate \in ElectricityRates :
         IF posterior_samples = <<>> /\ gp.kind = "gp"
         THEN pc' = "aborted" /\ UNCHANGED results
         ELSE /\ results' = [k \in 1..Len(posterior_samples) |->
                               ResultRow(gp, posterior_samples[k],
                                         electricity_rate)]
              /\ pc' \in IF posterior_samples = <<>>
                          THEN {"analyzed", "aborted"} ELSE {"analyzed"}
    /\ UNCHANGED <<gp_available, detect, script, param_bounds, uploadVars, dtabmVars, appVars, evaluations, decided_with, acq, rng, n_initial,
                   max_iterations, strategy, samples, i, X_train, y_train,
                   gp, y_best, n_real_sims, planned, iteration,
                   posterior_samples, calls, last>>

----------------------------------------------------------------------------
(* The acquisition functions of AdaptiveSampler, on the predictions        *)
(* (mu, sigma) that self.gp.predict returns for the candidates.  Energies  *)
(* are in hundredths here, so that xi = 0.01 is 1.                         *)

xi == 1     \* acquisition_expected_improvement(xi=0.01)

\* predictions and best values an acquisition call is checked on
MuValues == {9000, 9999, 10000, 11000}
SigmaValues == {0, 500, 1000}
BestValues == {10000, 10500}

(* round(2 * Z) for Z = improvement / sigma, kept inside [-8, 8] *)
ZHalves(improvement, sigma) ==
    LET z == (4 * improvement + sigma) \div (2 * sigma)
    IN  IF z < 0 - 8 THEN 0 - 8 ELSE IF z > 8 THEN 8 ELSE z

(* 1000 * norm.cdf(z) and 1000 * norm.pdf(z) at z = -4, -3.5, ..., 4 *)
CdfTable ==
    <<0, 0, 1, 6, 23, 67, 159, 309, 500, 691, 841, 933, 977, 994, 999,
      1000, 1000>>
PdfTable ==
    <<0, 1, 4, 18, 54, 130, 242, 352, 399, 352, 242, 130, 54, 18, 4, 1, 0>>

NormCdf(z2) == CdfTable[z2 + 9]
NormPdf(z2) == PdfTable[z2 + 9]

(* ei of one candidate: improvement * norm.cdf(Z) + sigma * norm.pdf(Z),   *)
(* and ei[sigma == 0.0] = 0.0.  Without the last assignment a candidate of *)
(* sigma 0.0 has Z infinite and ei = improvement when that is positive.    *)
ExpectedImprovementUnmasked(best, m, sd) ==
    LET improvement == best - m - xi
    IN  IF sd = 0 THEN (IF improvement > 0 THEN improvement * 1000 ELSE 0)
        ELSE improvement * NormCdf(ZHalves(improvement, sd))
                + sd * NormPdf(ZHalves(improvement, sd))
ExpectedImprovement(best, m, sd) ==
    LET improvement == best - m - xi
    IN  IF sd = 0 THEN 0
        ELSE improvement * NormCdf(ZHalves(improvement, sd))
                + sd * NormPdf(ZHalves(improvement, sd))

(* np.argmax: the first index of the largest entry *)
ArgMax(v) ==
    CHOOSE k \in 1..Len(v) :
        /\ \A c \in 1..Len(v) : v[c] <= v[k]
        /\ \A c \in 1..(k - 1) : v[c] < v[k]

(* np.argmin: the first index of the smallest entry *)
ArgMin(v) ==
    CHOOSE k \in 1..Len(v) :
        /\ \A c \in 1..Len(v) : v[k] <= v[c]
        /\ \A c \in 1..(k - 1) : v[k] < v[c]

(* Z = improvement / sigma as numpy computes it: a division by zero gives  *)
(* an infinity, and nan for 0 / 0                                          *)
ZValue(improvement, sigma) ==
    IF sigma # 0 THEN [kind |-> "num", v |-> ZHalves(improvement, sigma)]
    ELSE IF improvement = 0 THEN [kind |-> "nan", v |-> 0]
    ELSE [kind |-> "inf", v |-> IF improvement > 0 THEN 1 ELSE 0 - 1]

kappa == 2      \* acquisition_ucb(kappa=2.0)

(* ucb = mu - kappa * sigma *)
UcbPlus(m, sd) == m + kappa * sd
Ucb(m, sd) == m - kappa * sd

(* self.y_best after an acquisition call: the functions read it (EI) and   *)
(* assign nothing                                                          *)
BestLoweredByPrediction(best, mu) ==
    IF SeqMin(mu) < best[1] THEN Some(SeqMin(mu)) ELSE best
BestAfterAcquisition(best, mu) == best

NoCall == [strategy |-> None, next_idx |-> 0]

NoAcquisition ==
    [mu |-> <<>>, sigma |-> <<>>, score |-> <<>>, Z |-> <<>>, next_idx |-> 0,
     prev |-> NoCall]

(* what an acquisition call leaves behind: its scores and the index it     *)
(* returns, the previous call's result kept for comparison                 *)
Acquired(name, score, Z, next_idx) ==
    /\ script = "acquisition" /\ pc \in {"idle", "selected"}
    /\ acq' = [acq EXCEPT !.score = score, !.Z = Z, !.next_idx = next_idx,
                          !.prev = [strategy |-> strategy,
                                    next_idx |-> acq.next_idx]]
    /\ strategy' = name
    /\ y_best' = BestAfterAcquisition(y_best, acq.mu)
    /\ pc' = "selected"
    /\ UNCHANGED <<detectorVars, script, param_bounds, uploadVars, dtabmVars, appVars, evaluations, decided_with, rng, n_initial,
                   max_iterations, samples, i, X_train, y_train, gp,
                   n_real_sims, planned, iteration, posterior_samples, calls,
                   last>>

(* acquisition_max_uncertainty(X_candidates): std.argmax() *)
AcquisitionMaxUncertainty ==
    Acquired("uncertainty", acq.sigma, <<>>, ArgMax(acq.sigma))

(* acquisition_expected_improvement(X_candidates) *)
AcquisitionExpectedImprovement ==
    \E ei \in {[c \in 1..NCandidates |->
                   ExpectedImprovement(y_best[1], acq.mu[c], acq.sigma[c])]} :
        Acquired("ei", ei,
                 [c \in 1..NCandidates |->
                     ZValue(y_best[1] - acq.mu[c] - xi, acq.sigma[c])],
                 ArgMax(ei))

(* acquisition_ucb(X_candidates): ucb.argmin() *)
AcquisitionUcb ==
    \E ucb \in {[c \in 1..NCandidates |-> Ucb(acq.mu[c], acq.sigma[c])]} :
        Acquired("ucb", ucb, <<>>, ArgMin(ucb))

----------------------------------------------------------------------------
(* parse_uploaded_data of streamlit_app.py (script "upload").  Energies    *)
(* are in hundredths of a kWh.  A cell of a CSV column is a number, an     *)
(* empty cell (read as NaN) or text.                                       *)

RequiredRows == 12      \* if len(df) != 12
NoisePercent == 5       \* measured_monthly * 0.05

required_cols == {"Month", "Measured (kWh)"}
UncertaintyCol == "Uncertainty (kWh)"

Num(v) == [kind |-> "num", v |-> v]
NaN == [kind |-> "nan", v |-> 0]
Text == [kind |-> "text", v |-> 0]

(* a column holding a text cell is read with dtype object: arithmetic and  *)
(* comparisons with a number raise TypeError                               *)
IsObjectColumn(col) == \E k \in 1..Len(col) : col[k].kind = "text"

(* np.any(col <= 0) on a numeric column: NaN <= 0 is False *)
AnyNegative(col) == \E k \in 1..Len(col) : col[k].kind = "num" /\ col[k].v < 0
AnyNonPositive(col) ==
    \E k \in 1..Len(col) : col[k].kind = "num" /\ col[k].v <= 0

(* the default with the percentage left out *)
DefaultNoiseOnePercent(col) ==
    [k \in 1..Len(col) |->
        IF col[k].kind = "num" THEN Num(col[k].v \div 100) ELSE col[k]]

(* measured_monthly * 0.05 *)
DefaultNoise(col) ==
    [k \in 1..Len(col) |->
        IF col[k].kind = "num" THEN Num((NoisePercent * col[k].v) \div 100)
        ELSE col[k]]

Failure(message) == [success |-> FALSE, message |-> message, data |-> Nothing]

(* parse_uploaded_data(uploaded_file): every exception raised inside is    *)
(* caught and reported as a failure                                        *)
ParseUploadedData(file) ==
    IF ~file.readable THEN Failure("Error parsing file")
    ELSE IF ~(required_cols \subseteq file.columns)
    THEN Failure("Missing required columns")
    ELSE IF file.rows # RequiredRows THEN Failure("Expected 12 months of data")
    ELSE LET measured_monthly == file.measured
             has_noise == UncertaintyCol \in file.columns
         IN  IF ~has_noise /\ IsObjectColumn(measured_monthly)
             THEN Failure("Error parsing file")
             ELSE LET measurement_noise_std ==
                          IF has_noise THEN file.uncertainty
                          ELSE DefaultNoise(measured_monthly)
                  IN  IF IsObjectColumn(measured_monthly)
                      THEN Failure("Error parsing file")
                      ELSE IF AnyNonPositive(measured_monthly)
                      THEN Failure("Energy consumption values must be positive")
                      ELSE IF IsObjectColumn(measurement_noise_std)
                      THEN Failure("Error parsing file")
                      ELSE IF AnyNonPositive(measurement_noise_std)
                      THEN Failure("Uncertainty values must be positive")
                      ELSE [success |-> TRUE,
                            message |-> "Data loaded successfully!",
                            data |-> Some([measured_monthly |-> measured_monthly,
                                           measurement_noise_std |->
                                               measurement_noise_std])]

(* the files the function is given: a well-formed column with at most one  *)
(* cell replaced by a negative number, zero, an empty cell or text         *)
SpecialCells == {Num(0 - 2000), Num(0), NaN, Text}
RowCounts == {RequiredRows - 1, RequiredRows, RequiredRows + 1}

ColumnWith(n, first, step, at, cell) ==
    [k \in 1..n |-> IF k = at THEN cell ELSE Num(first + step * k)]

UploadedFiles ==
    {[readable |-> r, columns |-> cols, rows |-> n,
      measured |-> IF "Measured (kWh)" \in cols THEN m ELSE <<>>,
      uncertainty |-> IF UncertaintyCol \in cols THEN u ELSE <<>>] :
        r \in BOOLEAN, cols \in SUBSET (required_cols \cup {UncertaintyCol}),
        n \in RowCounts,
        m \in {ColumnWith(n1, 100000, 2000, at, c) :
                  n1 \in RowCounts, at \in {0, 1}, c \in SpecialCells},
        u \in {ColumnWith(n1, 5000, 100, at, c) :
                  n1 \in RowCounts, at \in {0, RequiredRows}, c \in SpecialCells}}

NoFile == [readable |-> FALSE, columns |-> {}, rows |-> 0, measured |-> <<>>,
           uncertainty |-> <<>>]

(* one call of parse_uploaded_data *)
ParseUpload ==
    /\ script = "upload" /\ pc = "idle"
    /\ parsed' = ParseUploadedData(upload)
    /\ pc' = "parsed"
    /\ UNCHANGED <<detectorVars, script, param_bounds, upload, decided_with,
                   dtabmVars, appVars, evaluations, acq, rng,
                   n_initial, max_iterations, strategy, samples, i, X_train,
                   y_train, gp, y_best, n_real_sims, planned, iteration,
                   posterior_samples, calls, last>>

----------------------------------------------------------------------------
(* DigitalTwinABM of dtabm_framework.py (script "dtabm").  A version       *)
(* string "a.b.c" is the triple <<a, b, c>>; an IDF file is named by its   *)
(* model and version and holds a lighting power in percent of the          *)
(* baseline's; datetime.now() is "now".                                    *)

MaxEcms == 2            \* implement_ecm calls that return
MaxMonths == 2          \* monthly_update_dtabm calls

annual_kwh == 449389    \* run_monthly_simulation: 449389 / 12
duration_months == 3    \* post_ecm_validation(duration_months=3)

IdfName(model, version) == [model |-> model, version |-> version]

baseline_idf == IdfName("baseline_calibrated", <<1, 0, 0>>)

(* self.dt_registry as __init__ builds it *)
InitialRegistry ==
    [DTABM_Baseline |->
        [version |-> Some(<<1, 0, 0>>), idf_file |-> Some(baseline_idf),
         status |-> "frozen", last_validation |-> None],
     DTABM_Operational |->
        [version |-> Some(<<1, 0, 0>>), idf_file |-> Nothing,
         status |-> "active", last_update |-> None,
         update_frequency |-> "monthly"],
     DTActual |->
        [version |-> Nothing, created |-> None, idf_file |-> Nothing,
         ecms_implemented |-> <<>>, status |-> "pending",
         last_update |-> None]]

InitialFiles == {[file |-> baseline_idf, lights |-> 100]}

(* shutil.copy(src, dst) *)
Copy(files, src, dst) ==
    LET content == (CHOOSE f \in files : f.file = src).lights
    IN  {f \in files : f.file # dst} \cup {[file |-> dst, lights |-> content]}

(* write the content back to a file *)
Write(files, dst, lights) ==
    {f \in files : f.file # dst} \cup {[file |-> dst, lights |-> lights]}

(* self.dt_registry[model]["last_update"] = datetime.now().isoformat() *)
MarkUpdatedAndThaw(reg, model) ==
    [reg EXCEPT ![model].last_update = "now", !.DTABM_Baseline.status = "active"]
MarkUpdated(reg, model) == [reg EXCEPT ![model].last_update = "now"]

(* f"{major}.{int(minor)+1}.{patch}" *)
IncrementPatch(version) == <<version[1], version[2], version[3] + 1>>
IncrementMinor(version) == <<version[1], version[2] + 1, version[3]>>

(* abs(error_pct) > pct for error_pct = (actual - predicted) / predicted   *)
(* * 100 with predicted = 449389 / 12 * months                             *)
DeviationAbove(actual, months, pct) ==
    Abs(12 * actual - annual_kwh * months) * 100 > pct * annual_kwh * months

\* the arguments the operations are called with
MonthlyEnergies == {38500, 40000, 45000}
PostEcmEnergies == {95000, 112000, 120000}
WeatherAdjustments == {100, 102}
Ecms ==
    {[ecm_name |-> "LED_Lighting_Retrofit", modifications |-> "lighting"],
     [ecm_name |-> "HVAC_Upgrade", modifications |-> "hvac"],
     [ecm_name |-> "Relamping", modifications |-> "lighting without factor"]}
reduction_factor == 50  \* 'reduction_factor': 0.5

(* create_dtabm_operational *)
CreateDtabmOperational ==
    /\ script = "dtabm"
    /\ LET operational_idf == IdfName("DTABM_Operational", <<1, 0, 0>>)
       IN  /\ idf_files' = Copy(idf_files, baseline_idf, operational_idf)
           /\ dt_registry' =
                 MarkUpdated([dt_registry EXCEPT
                                 !.DTABM_Operational.idf_file =
                                     Some(operational_idf)],
                             "DTABM_Operational")
    /\ last' = "ok"
    /\ UNCHANGED <<detectorVars, script, param_bounds, uploadVars, appVars,
                   evaluations, decided_with, tracking, mv_report, ecm_calls, acq, pc, rng,
                   n_initial, max_iterations, strategy, samples, i, X_train,
                   y_train, gp, y_best, n_real_sims, planned, iteration,
                   posterior_samples, calls>>

(* monthly_update_dtabm(actual_energy_kwh): Path(None) raises before the   *)
(* operational model exists                                                *)
MonthlyUpdateDtabm ==
    /\ script = "dtabm" /\ Len(tracking) < MaxMonths
    /\ \E actual_energy_kwh \in MonthlyEnergies :
         IF dt_registry.DTABM_Operational.idf_file = Nothing
         THEN /\ last' = "fail"
              /\ UNCHANGED <<dt_registry, tracking>>
         ELSE /\ tracking' =
                    Append(tracking,
                           [actual_kwh |-> actual_energy_kwh,
                            model_version |->
                                dt_registry.DTABM_Operational.version,
                            anomaly |->
                                IF DeviationAbove(actual_energy_kwh, 1, 15)
                                THEN "HIGH"
                                ELSE IF DeviationAbove(actual_energy_kwh, 1, 10)
                                THEN "MEDIUM" ELSE None])
              /\ dt_registry' = MarkUpdated(dt_registry, "DTABM_Operational")
              /\ last' = "ok"
    /\ UNCHANGED <<detectorVars, script, param_bounds, uploadVars, appVars,
                   evaluations, decided_with, mv_report, ecm_calls, idf_files, acq, pc, rng,
                   n_initial, max_iterations, strategy, samples, i, X_train,
                   y_train, gp, y_best, n_real_sims, planned, iteration,
                   posterior_samples, calls>>

(* implement_ecm(ecm_name, ecm_description, ecm_modifications).  The first *)
(* call creates DTActual from the operational model (Path(None) raises     *)
(* without one); ecm_modifications['lighting']['reduction_factor'] raises  *)
(* KeyError on a lighting entry without the factor, after DTActual was     *)
(* created and before the ECM is recorded.                                 *)
ImplementEcm ==
    /\ script = "dtabm" /\ Len(ecm_calls) < MaxEcms
    /\ \E ecm \in Ecms :
         LET first == dt_registry.DTActual.version = Nothing
             v0 == IdfName("DTActual", <<1, 0, 0>>)
         IN  IF first /\ dt_registry.DTABM_Operational.idf_file = Nothing
             THEN /\ last' = "fail"
                  /\ UNCHANGED <<dt_registry, idf_files, ecm_calls>>
             ELSE LET reg1 == IF first
                              THEN [dt_registry EXCEPT
                                      !.DTActual.version = Some(<<1, 0, 0>>),
                                      !.DTActual.created = "now",
                                      !.DTActual.idf_file = Some(v0),
                                      !.DTActual.status = "active"]
                              ELSE dt_registry
                      files1 == IF first
                                THEN Copy(idf_files,
                                          dt_registry.DTABM_Operational.idf_file[1],
                                          v0)
                                ELSE idf_files
                      dtactual_idf == reg1.DTActual.idf_file[1]
                  IN  IF ecm.modifications = "lighting without factor"
                      THEN /\ last' = "fail"
                           /\ dt_registry' = reg1
                           /\ idf_files' = files1
                           /\ UNCHANGED ecm_calls
                      ELSE LET content ==
                                   (CHOOSE f \in files1 :
                                        f.file = dtactual_idf).lights
                               written ==
                                   IF ecm.modifications = "lighting"
                                   THEN (content * reduction_factor) \div 100
                                   ELSE content
                               files2 == Write(files1, dtactual_idf, written)
                               new_version ==
                                   IncrementMinor(reg1.DTActual.version[1])
                               new_dtactual == IdfName("DTActual", new_version)
                           IN  /\ idf_files' =
                                     Copy(files2, dtactual_idf, new_dtactual)
                               /\ dt_registry' =
                                     MarkUpdated(
                                       [reg1 EXCEPT
                                          !.DTActual.ecms_implemented =
                                              Append(@, ecm),
                                          !.DTActual.version = Some(new_version),
                                          !.DTActual.idf_file =
                                              Some(new_dtactual)],
                                       "DTActual")
                               /\ ecm_calls' = Append(ecm_calls, ecm.ecm_name)
                               /\ last' = "ok"
    /\ UNCHANGED <<detectorVars, script, param_bounds, uploadVars, appVars,
                   evaluations, decided_with, tracking, mv_report, acq, pc, rng,
                   n_initial, max_iterations, strategy, samples, i, X_train,
                   y_train, gp, y_best, n_real_sims, planned, iteration,
                   posterior_samples, calls>>

(* post_ecm_validation(post_ecm_actual_energy): Path(None) raises before   *)
(* DTActual exists                                                         *)
PostEcmValidation ==
    /\ script = "dtabm"
    /\ \E post_ecm_actual_energy \in PostEcmEnergies :
         IF dt_registry.DTActual.idf_file = Nothing
         THEN last' = "fail" /\ UNCHANGED dt_registry
         ELSE /\ dt_registry' =
                    [dt_registry EXCEPT !.DTActual.status =
                        IF ~DeviationAbove(post_ecm_actual_energy,
                                           duration_months, 5)
                        THEN "validated"
                        ELSE IF ~DeviationAbove(post_ecm_actual_energy,
                                                duration_months, 10)
                        THEN "acceptable" ELSE "needs_recalibration"]
              /\ last' = "ok"
    /\ UNCHANGED <<detectorVars, script, param_bounds, uploadVars, appVars,
                   evaluations, decided_with, tracking, mv_report, ecm_calls, idf_files,
                   acq, pc, rng, n_initial, max_iterations, strategy, samples,
                   i, X_train, y_train, gp, y_best, n_real_sims, planned,
                   iteration, posterior_samples, calls>>

(* calculate_mv_savings(baseline_energy, actual_energy, weather_adjustment) *)
(* as main calls it: the report file is written, the registry is not used   *)
CalculateMvSavings ==
    /\ script = "dtabm"
    /\ \E weather_adjustment \in WeatherAdjustments :
         LET actual_normalized == (380000 * weather_adjustment) \div 100
         IN  mv_report' = Some([baseline_kwh |-> annual_kwh,
                                actual_normalized_kwh |-> actual_normalized,
                                savings_kwh |-> annual_kwh - actual_normalized])
    /\ last' = "ok"
    /\ UNCHANGED <<detectorVars, script, param_bounds, uploadVars, appVars,
                   evaluations, decided_with, dt_registry, tracking, ecm_calls, idf_files,
                   acq, pc, rng, n_initial, max_iterations, strategy, samples,
                   i, X_train, y_train, gp, y_best, n_real_sims, planned,
                   iteration, posterior_samples, calls>>

(* no DigitalTwinABM was constructed *)
DtabmUnused ==
    /\ dt_registry = InitialRegistry /\ tracking = <<>> /\ mv_report = Nothing
    /\ ecm_calls = <<>> /\ idf_files = {}

----------------------------------------------------------------------------
(* The Streamlit app of streamlit_app.py (script "app").  Every            *)
(* interaction reruns the script from the top: the sidebar sliders assign  *)
(* the priors, the upload section parses the file the uploader holds, the  *)
(* data to use are chosen, and the calibration runs if its button was      *)
(* clicked.                                                                *)

\* wall_r mean in tenths: the default 13.0 and a moved slider
PriorValues == {[wall_r |-> 130], [wall_r |-> 150]}
DefaultPriors == [wall_r |-> 130]

InitialSession ==
    [priors |-> DefaultPriors, uploaded_data |-> Nothing, trace |-> Nothing,
     model |-> Nothing]

\* files a user uploads: complete, without the uncertainty column, with a
\* text cell, with 11 rows, with a zero reading
AppFiles ==
    LET all == required_cols \cup {UncertaintyCol}
        File(cols, n, at, cell) ==
            [readable |-> TRUE, columns |-> cols, rows |-> n,
             measured |-> ColumnWith(n, 100000, 2000, at, cell),
             uncertainty |-> IF UncertaintyCol \in cols
                             THEN ColumnWith(n, 5000, 100, 0, NaN) ELSE <<>>]
    IN  {File(all, RequiredRows, 0, NaN),
         File(required_cols, RequiredRows, 0, NaN),
         File(all, RequiredRows, 1, Text),
         File(all, RequiredRows - 1, 0, NaN),
         File(required_cols, RequiredRows, 1, Num(0))}

(* if success: uploaded_data = data, else: uploaded_data = None *)
StoreUploadKeepingOld(ss, result) ==
    IF result.success THEN [ss EXCEPT !.uploaded_data = result.data] ELSE ss
StoreUpload(ss, result) ==
    [ss EXCEPT !.uploaded_data = IF result.success THEN result.data ELSE Nothing]

(* the upload section: if uploaded_file is not None: parse and store *)
UploadSection(ss, widget) ==
    IF widget = Nothing THEN ss
    ELSE StoreUpload(ss, ParseUploadedData(widget[1]))

(* "Determine which data to use" *)
DataUsed(ss) ==
    IF ss.uploaded_data # Nothing
    THEN [data_source |-> "custom", data |-> ss.uploaded_data]
    ELSE [data_source |-> "synthetic", data |-> Nothing]

(* if run_calibration: the trace and model of a run on the chosen data *)
RunCalibration(ss) ==
    [ss EXCEPT !.trace = Some([priors |-> ss.priors, used |-> DataUsed(ss)]),
               !.model = Some("model")]

(* one run of the script from the sliders to the calibration *)
ScriptRun(ss, priors, widget, run_calibration) ==
    LET loaded == UploadSection([ss EXCEPT !.priors = priors], widget)
    IN  IF run_calibration THEN RunCalibration(loaded) ELSE loaded

(* the parse call of a script run *)
Parsing(widget) ==
    IF widget = Nothing THEN UNCHANGED <<upload, parsed>>
    ELSE upload' = widget[1] /\ parsed' = ParseUploadedData(widget[1])

(* what no interaction with the app changes *)
AppFrame ==
    UNCHANGED <<detectorVars, script, param_bounds, dtabmVars, decided_with,
                evaluations, acq, pc, rng, n_initial, max_iterations, strategy, samples, i,
                X_train, y_train, gp, y_best, n_real_sims, planned, iteration,
                posterior_samples, calls>>

(* a slider of the sidebar is moved *)
ChangePrior ==
    /\ script = "app"
    /\ \E priors \in PriorValues \ {session_state.priors} :
         session_state' = ScriptRun(session_state, priors, uploaded_file, FALSE)
    /\ Parsing(uploaded_file)
    /\ last' = "slider"
    /\ UNCHANGED uploaded_file
    /\ AppFrame

(* a file is put into the uploader, or the file is removed from it *)
ChangeUpload ==
    /\ script = "app"
    /\ \E widget \in ({Nothing} \cup {Some(f) : f \in AppFiles}) \ {uploaded_file} :
         /\ uploaded_file' = widget
         /\ session_state' =
               ScriptRun(session_state, session_state.priors, widget, FALSE)
         /\ Parsing(widget)
    /\ last' = "upload"
    /\ AppFrame

(* "Run Calibration" is clicked; run_bayesian_calibration may raise, and   *)
(* then nothing is stored                                                  *)
ClickRunCalibration ==
    /\ script = "app"
    /\ \E ok \in BOOLEAN :
         session_state' =
             ScriptRun(session_state, session_state.priors, uploaded_file, ok)
    /\ Parsing(uploaded_file)
    /\ last' = "run"
    /\ UNCHANGED uploaded_file
    /\ AppFrame

(* "Reset / Start Over" is clicked (shown only with a trace): trace and    *)
(* model are deleted and st.rerun() runs the script again                  *)
ClickReset ==
    /\ script = "app" /\ session_state.trace # Nothing
    /\ session_state' =
          ScriptRun([session_state EXCEPT !.trace = Nothing, !.model = Nothing],
                    session_state.priors, uploaded_file, FALSE)
    /\ Parsing(uploaded_file)
    /\ last' = "reset"
    /\ UNCHANGED uploaded_file
    /\ AppFrame

(* "Use Synthetic Data Instead" is clicked (shown only with uploaded       *)
(* data): uploaded_data = None and st.rerun() runs the script again, which *)
(* parses the file the uploader still holds                                *)
ClickUseSynthetic ==
    /\ script = "app"
    /\ LET loaded == UploadSection(session_state, uploaded_file)
       IN  /\ loaded.uploaded_data # Nothing
           /\ session_state' =
                 ScriptRun([loaded EXCEPT !.uploaded_data = Nothing],
                           session_state.priors, uploaded_file, FALSE)
    /\ Parsing(uploaded_file)
    /\ last' = "synthetic"
    /\ UNCHANGED uploaded_file
    /\ AppFrame

(* the app is not running *)
AppUnused == session_state = InitialSession /\ uploaded_file = Nothing

(* none of the calibration scripts is running *)
CalibrationUnused ==
    /\ param_bounds = <<>>
    /\ upload = NoFile
    /\ parsed = Failure("")
    /\ acq = NoAcquisition
    /\ decided_with = NoDecision
    /\ pc = "idle"
    /\ y_best = Nothing
    /\ rng = 0 /\ n_initial = 0 /\ max_iterations = 0 /\ strategy = None
    /\ samples = <<>> /\ i = 0 /\ X_train = <<>> /\ y_train = <<>>
    /\ gp = NoGp /\ n_real_sims = 0 /\ planned = 0 /\ iteration = 0
    /\ posterior_samples = <<>> /\ gp_available = TRUE
    /\ evaluations = <<>>
    /\ detect = NoDetection /\ results = <<>> /\ calls = 0 /\ last = "none"

----------------------------------------------------------------------------
(* Initial states and next-state relation *)

Scripts == {"sampler", "calibrator", "step3", "detector"}

(* the bounds the initial design of a script is scaled to *)
DesignBounds(sc) ==
    IF sc = "sampler" THEN sampler_param_bounds
    ELSE IF sc = "calibrator" THEN calibrator_param_bounds
    ELSE IF sc = "step3" THEN step3_param_ranges
    ELSE <<infiltration_range>>

(* the arguments a script is run with *)
InitialSizes(sc) ==
    IF sc = "calibrator" THEN (0..MaxInitial) \cup {DefaultInitialSamples}
    ELSE IF sc = "step3" THEN (0..MaxInitial) \cup {Step3Samples}
    ELSE IF sc = "detector" THEN (0..MaxInitial) \cup {DetectorSamples}
    ELSE 0..MaxInitial

(* the state of a script about to run, its bounds apart *)
InitRun ==
    /\ pc = "idle"
    /\ acq = NoAcquisition
    /\ upload = NoFile /\ parsed = Failure("")
    /\ DtabmUnused /\ AppUnused
    /\ decided_with = NoDecision
    /\ rng \in IF script = "step3" THEN {SeedRng(Step3Seed)}
               ELSE {SeedRng(k) : k \in 0..MaxSeed}
    /\ n_initial \in InitialSizes(script)
    /\ max_iterations \in IF script = "sampler" THEN 0..MaxIter ELSE {0}
    /\ strategy = None
    /\ samples = <<>>
    /\ i = 0
    /\ X_train = <<>>
    /\ y_train = <<>>
    /\ gp = NoGp
    /\ y_best = Nothing
    /\ n_real_sims = 0
    /\ planned = 0
    /\ iteration = 0
    /\ posterior_samples = <<>>
    /\ gp_available \in IF script = "detector" THEN BOOLEAN ELSE {TRUE}
    /\ detect = NoDetection
    /\ evaluations = <<>>
    /\ results = <<>>
    /\ calls = 0
    /\ last = "none"

Init ==
    /\ script \in Scripts
    /\ param_bounds = DesignBounds(script)
    /\ InitRun

Next ==
    \/ InitializeLhs
    \/ LhsSimulate
    \/ RunAdaptiveSampling
    \/ AdaptiveIteration
    \/ InitializeGpSurrogate
    \/ GpInitSimulate
    \/ RunBayesianInference
    \/ RefineGp
    \/ AnalyzeResults
    \/ CreateTrainingSamples
    \/ Step3Simulate
    \/ Step3BuildSurrogate
    \/ BuildSurrogateModel
    \/ DetectorSimulate
    \/ BayesianFaultDetection
    \/ CounterfactualAnalysis

Spec == Init /\ [][Next]_vars

(* AdaptiveSampler constructed with any param_bounds dict: the bounds of   *)
(* compare_sampling_strategies, a first parameter with lower = upper, and  *)
(* one with lower > upper                                                  *)
SamplerBoundSpecs ==
    {sampler_param_bounds,
     [sampler_param_bounds EXCEPT ![1] = <<1000, 1000>>],
     [sampler_param_bounds EXCEPT ![1] = <<2000, 1000>>]}

InitAnyBounds ==
    /\ script = "sampler"
    /\ param_bounds \in SamplerBoundSpecs
    /\ InitRun

NextSampler ==
    \/ InitializeLhs
    \/ LhsSimulate
    \/ RunAdaptiveSampling
    \/ AdaptiveIteration

SpecAnyBounds == InitAnyBounds /\ [][NextSampler]_vars

(* an AdaptiveSampler with a fitted GP and a best value, about to score a  *)
(* candidate pool whose predictions are mu and sigma                       *)
InitAcquisition ==
    /\ script = "acquisition"
    /\ param_bounds = sampler_param_bounds
    /\ upload = NoFile /\ parsed = Failure("")
    /\ DtabmUnused /\ AppUnused
    /\ decided_with = NoDecision
    /\ pc = "idle"
    /\ acq \in [mu : [1..NCandidates -> MuValues],
                 sigma : [1..NCandidates -> SigmaValues],
                 score : {<<>>}, Z : {<<>>}, next_idx : {0}, prev : {NoCall}]
    /\ y_best \in {Some(b) : b \in BestValues}
    /\ rng \in {SeedRng(k) : k \in 0..MaxSeed}
    /\ n_initial = 0 /\ max_iterations = 0 /\ strategy = None
    /\ samples = <<>> /\ i = 0 /\ X_train = <<>> /\ y_train = <<>>
    /\ gp = NoGp /\ n_real_sims = 0 /\ planned = 0 /\ iteration = 0
    /\ posterior_samples = <<>> /\ gp_available = TRUE
    /\ evaluations = <<>>
    /\ detect = NoDetection /\ results = <<>> /\ calls = 0 /\ last = "none"

NextAcquisition ==
    \/ AcquisitionMaxUncertainty
    \/ AcquisitionExpectedImprovement
    \/ AcquisitionUcb

SpecAcquisition == InitAcquisition /\ [][NextAcquisition]_vars

(* parse_uploaded_data about to be called on an uploaded file *)
InitUpload ==
    /\ script = "upload"
    /\ param_bounds = <<>>
    /\ upload \in {f \in UploadedFiles :
                      /\ Len(f.measured) \in {0, f.rows}
                      /\ Len(f.uncertainty) \in {0, f.rows}}
    /\ parsed = Failure("")
    /\ DtabmUnused /\ AppUnused
    /\ decided_with = NoDecision
    /\ pc = "idle"
    /\ acq = NoAcquisition
    /\ y_best = Nothing
    /\ rng = 0 /\ n_initial = 0 /\ max_iterations = 0 /\ strategy = None
    /\ samples = <<>> /\ i = 0 /\ X_train = <<>> /\ y_train = <<>>
    /\ gp = NoGp /\ n_real_sims = 0 /\ planned = 0 /\ iteration = 0
    /\ posterior_samples = <<>> /\ gp_available = TRUE
    /\ evaluations = <<>>
    /\ detect = NoDetection /\ results = <<>> /\ calls = 0 /\ last = "none"

NextUpload ==
    \/ ParseUpload

SpecUpload == InitUpload /\ [][NextUpload]_vars

(* a DigitalTwinABM just constructed on the calibrated baseline *)
InitDtabm ==
    /\ script = "dtabm"
    /\ dt_registry = InitialRegistry
    /\ idf_files = InitialFiles
    /\ tracking = <<>> /\ mv_report = Nothing /\ ecm_calls = <<>>
    /\ AppUnused
    /\ CalibrationUnused

NextDtabm ==
    \/ CreateDtabmOperational
    \/ MonthlyUpdateDtabm
    \/ ImplementEcm
    \/ PostEcmValidation
    \/ CalculateMvSavings

SpecDtabm == InitDtabm /\ [][NextDtabm]_vars

(* the app after its first script run: default priors, no upload, no trace *)
InitApp ==
    /\ script = "app"
    /\ session_state = InitialSession
    /\ uploaded_file = Nothing
    /\ DtabmUnused
    /\ CalibrationUnused

NextApp ==
    \/ ChangePrior
    \/ ChangeUpload
    \/ ClickRunCalibration
    \/ ClickReset
    \/ ClickUseSynthetic

SpecApp == InitApp /\ [][NextApp]_vars

----------------------------------------------------------------------------
(* Properties *)

ParamBounds(sc) ==
    IF sc = "sampler" THEN sampler_param_bounds ELSE calibrator_param_bounds

(* the refinement iterations a calibrator run with all n initial           *)
(* simulations done is due: the remaining budget, at most 10, at least 0   *)
DueRefinements(n) ==
    IF max_real_sims - n >= RefinementCap THEN RefinementCap
    ELSE IF max_real_sims - n <= 0 THEN 0
    ELSE max_real_sims - n

C2_CounterWithinBudget ==
    script = "calibrator" => n_real_sims <= max_real_sims

(* C3: every simulator invocation attempt of the calibrator, returning or  *)
(* raising, adds exactly one to n_real_sims; nothing else changes the      *)
(* counter and it never decreases.                                         *)
C3_OneUnitPerAttempt ==
    [][script = "calibrator" =>
          /\ calls' \in {calls, calls + 1}
          /\ n_real_sims' - n_real_sims = calls' - calls]_vars

(* C3 witness: a raising attempt was counted after counted successes *)
C3_Witness ==
    /\ script = "calibrator" /\ last = "fail"
    /\ n_real_sims = calls /\ calls >= 2

(* C4, as stated: a failing simulator call inside the initial-design loop  *)
(* or the active-learning loop leaves the training set unchanged and does  *)
(* not abort the loop.                                                     *)
C4_FailureSkipped ==
    [][(pc \in {"lhs", "iterating", "refining"} /\ calls' = calls + 1
            /\ last' = "fail")
         => (X_train' = X_train /\ y_train' = y_train
             /\ pc' # "aborted")]_vars

(* C6: the training set is append-only: every step leaves the earlier      *)
(* X_train and y_train as prefixes of the later ones.                      *)
C6_AppendOnly ==
    [][IsPrefix(X_train, X_train') /\ IsPrefix(y_train, y_train')]_vars

(* C6 witness: the training set grew in the initial design and in the loop *)
C6_Witness ==
    /\ script = "sampler" /\ iteration >= 2
    /\ Len(X_train) = n_initial + iteration /\ n_initial >= 2

(* C7: every vector of the initial design, of the candidate pool and of    *)
(* the training set lies inside the declared bounds, coordinate by         *)
(* coordinate.                                                             *)
C7_BoundsInvariant ==
    script \in {"sampler", "calibrator"} =>
      /\ \A k \in 1..Len(samples) : InBounds(samples[k], ParamBounds(script))
      /\ \A k \in 1..Len(X_train) : InBounds(X_train[k], ParamBounds(script))
      /\ script = "sampler" =>
           \A c \in 1..NCandidates :
               InBounds(CandidatePool(sampler_param_bounds, rng)[c],
                        sampler_param_bounds)

(* C7 witness: a stored candidate and a stored design point, one of them   *)
(* on an upper bound                                                       *)
C7_Witness ==
    /\ script = "sampler" /\ pc = "done" /\ iteration >= 1 /\ n_initial >= 2
    /\ \E k \in 1..Len(X_train) : \E j \in 1..Len(sampler_param_bounds) :
           X_train[k][j] = sampler_param_bounds[j][2]

(* C8: once the initial design is evaluated, y_best is the minimum of      *)
(* y_train after every step, and y_best never increases.                   *)
C8_RunningBest ==
    /\ [](script = "sampler" =>
            /\ pc \in {"ready", "iterating", "done"} => y_best # Nothing
            /\ y_best # Nothing => y_best = Some(SeqMin(y_train)))
    /\ [][(y_best # Nothing /\ y_best' # Nothing)
             => y_best'[1] <= y_best[1]]_vars

(* C8 witness: an iteration found a new best *)
C8_Witness ==
    /\ script = "sampler" /\ iteration >= 1 /\ Len(y_train) >= 2
    /\ y_train[Len(y_train)] < SeqMin(SubSeq(y_train, 1, Len(y_train) - 1))
    /\ y_best = Some(y_train[Len(y_train)])

(* C9, as stated: the sampler's loop leaves Iterating only for Exhausted,  *)
(* with the whole iteration budget consumed.                               *)
C9_LeavesIteratingWhenExhausted ==
    [][(script = "sampler" /\ strategy \in Strategies
            /\ pc = "iterating" /\ pc' # "iterating")
         => (pc' = "done" /\ iteration' = max_iterations)]_vars

C10_MaxLikelihoodAccepted ==
    (script = "detector" /\ pc = "detected") =>
      LET L == detect.likelihood
      IN  (\E k \in 1..Len(L) : L[k] > 0) =>
            /\ \A k \in 1..Len(L) :
                 (L[k] = SeqMax(L)
                     \/ detect.predictions[k] = detect.observed)
                   => detect.accepted[k]
            /\ posterior_samples # <<>>

(* C10 witness: a maximal-likelihood proposal met the largest draw of      *)
(* rand() and was accepted, while a proposal of lower non-zero likelihood  *)
(* was rejected                                                            *)
C10_Witness ==
    /\ script = "detector" /\ pc = "detected"
    /\ \E k \in 1..Len(detect.likelihood) :
         /\ detect.likelihood[k] = SeqMax(detect.likelihood)
         /\ detect.likelihood[k] > 0
         /\ detect.rand[k] = UnitRes - 1
         /\ detect.accepted[k]
    /\ \E k \in 1..Len(detect.likelihood) :
         detect.likelihood[k] > 0 /\ ~detect.accepted[k]

(* C11, as stated: bayesian_fault_detection never returns an empty         *)
(* posterior to its caller, so counterfactual_analysis never starts or     *)
(* completes on one.                                                       *)
C11_NoEmptyPosteriorReturned ==
    (script = "detector" /\ pc \in {"detected", "analyzed"})
        => posterior_samples # <<>>

(* C12: counterfactual_analysis returns one row per posterior sample, in   *)
(* order; a row's energy saving is the surrogate's prediction at the       *)
(* sample minus its prediction at the multiplier 1.0, its cost saving is   *)
(* that difference times the electricity rate, and a sample equal to 1.0   *)
(* saves 0.                                                                *)
C12_CounterfactualRows ==
    (script = "detector" /\ pc = "analyzed") =>
      /\ Len(results) = Len(posterior_samples)
      /\ \E rate \in ElectricityRates :
           \A k \in 1..Len(results) :
             /\ results[k].infiltration_mult = posterior_samples[k]
             /\ results[k].energy_savings_kwh
                    = PredictMean(gp, posterior_samples[k])
                        - PredictMean(gp, nominal_infiltration)
             /\ results[k].cost_savings_usd
                    = results[k].energy_savings_kwh * rate
             /\ posterior_samples[k] = nominal_infiltration
                    => results[k].energy_savings_kwh = 0

(* C12 witness: the analysed posterior holds a sample at 1.0 and a sample  *)
(* above it whose row shows a positive saving                              *)
C12_Witness ==
    /\ script = "detector" /\ pc = "analyzed"
    /\ \E k \in 1..Len(results) :
         results[k].infiltration_mult = nominal_infiltration
    /\ \E k \in 1..Len(results) :
         /\ results[k].infiltration_mult > nominal_infiltration
         /\ results[k].energy_savings_kwh > 0
         /\ results[k].cost_savings_usd > 0

(* the one of the n equal-width sub-intervals of [lb, ub] that holds x:    *)
(* [lb, lb + w], (lb + w, lb + 2w], ..., (ub - w, ub] with w = (ub - lb)/n *)
Stratum(x, lb, ub, n) ==
    IF x = lb THEN 1
    ELSE CHOOSE k \in 1..n :
            (k - 1) * (ub - lb) < (x - lb) * n /\ (x - lb) * n <= k * (ub - lb)

(* C13: the initial design of every script is stratified: in every         *)
(* dimension each of the n equal-width sub-intervals of [lower, upper]     *)
(* holds exactly one of the n design points.                               *)
C13_Stratified ==
    LET B == DesignBounds(script)
        n == Len(samples)
    IN  \A j \in 1..Len(B) : \A k \in 1..n :
            Cardinality({a \in 1..n :
                Stratum(samples[a][j], B[j][1], B[j][2], n) = k}) = 1

(* C13 witness: a Latin hypercube of the default 10 points, evaluated,     *)
(* whose first coordinates are not in ascending order                      *)
C13_Witness ==
    /\ script = "calibrator" /\ Len(samples) = DefaultInitialSamples
    /\ \E a \in 1..(Len(samples) - 1) : samples[a][1] > samples[a + 1][1]
    /\ pc = "ready"

(* lower < upper for every declared parameter *)
ValidBounds(bounds) == \A j \in 1..Len(bounds) : bounds[j][1] < bounds[j][2]

(* C14, as stated: with lower >= upper for some parameter, or with a       *)
(* design of n <= 0 points, the sampler makes no simulator call and its    *)
(* training set stays empty.                                               *)
C14_InvalidSpecRejected ==
    (script = "sampler" /\ (~ValidBounds(param_bounds) \/ n_initial <= 0))
        => (calls = 0 /\ X_train = <<>> /\ y_train = <<>> /\ gp = NoGp)

(* C15: acquisition_expected_improvement gives every candidate of std 0   *)
(* an EI of exactly 0 and every candidate of std > 0 and mean < best - xi  *)
(* an EI > 0; when there is such a candidate the index returned is one of  *)
(* positive std and of the largest EI, never a zero-std candidate.         *)
C15_ExpectedImprovement ==
    (script = "acquisition" /\ pc = "selected" /\ strategy = "ei") =>
      /\ \A c \in 1..NCandidates : acq.sigma[c] = 0 => acq.score[c] = 0
      /\ \A c \in 1..NCandidates :
            (acq.sigma[c] > 0 /\ acq.mu[c] < y_best[1] - xi)
                => acq.score[c] > 0
      /\ (\E c \in 1..NCandidates :
              acq.sigma[c] > 0 /\ acq.mu[c] < y_best[1] - xi)
            => /\ acq.sigma[acq.next_idx] > 0
               /\ \A c \in 1..NCandidates :
                     acq.score[c] <= acq.score[acq.next_idx]

(* C15 witness: best = 100; B (mean 100, std 0) comes first with EI 0 and  *)
(* A (mean 90, std 5) second is chosen                                     *)
C15_Witness ==
    /\ script = "acquisition" /\ pc = "selected" /\ strategy = "ei"
    /\ y_best = Some(10000)
    /\ acq.mu[1] = 10000 /\ acq.sigma[1] = 0 /\ acq.score[1] = 0
    /\ acq.mu[2] = 9000 /\ acq.sigma[2] = 500 /\ acq.score[2] > 0
    /\ acq.next_idx = 2

(* the states of the generator *)
RngStates == {SeedRng(k) : k \in 0..15}

(* C16, as stated: the fitted surrogate is a function of the training set  *)
(* alone: fitting on the same (X, y) in any other state of the generator   *)
(* gives the same model.                                                   *)
C16_FitFunctionOfTrainingSet ==
    gp.kind = "gp" =>
        \A s \in RngStates : FitGp(gp.X, gp.y, s) = gp

(* C17: the std that SimpleInterpolator.predict returns is strictly        *)
(* positive at every query point, equals 5000 * (1 + 5 * d) for the        *)
(* distance d to the nearest training input, and so is larger at a point   *)
(* farther from the training data and never smaller.                       *)
C17_InterpolatorStd ==
    (script = "detector" /\ pc \in {"detected", "analyzed"}
        /\ gp.kind = "interp") =>
      LET q == detect.prior_samples
          Near(k) == NearestDistance(q[k], gp.X)
      IN  /\ Len(detect.std) = Len(q)
          /\ \A k \in 1..Len(q) :
                /\ detect.std[k] > 0
                /\ 100 * detect.std[k] = 5000 * (100 + 5 * Near(k))
          /\ \A k, l \in 1..Len(q) :
                /\ Near(k) < Near(l) => detect.std[k] < detect.std[l]
                /\ Near(k) <= Near(l) => detect.std[k] <= detect.std[l]

(* C17 witness: one query point on a training input with std 5000, one    *)
(* at least 0.5 away from all of them with a larger std                    *)
C17_Witness ==
    /\ script = "detector" /\ pc = "detected" /\ gp.kind = "interp"
    /\ Len(gp.X) >= 2
    /\ \E k, l \in 1..Len(detect.std) :
         /\ NearestDistance(detect.prior_samples[k], gp.X) = 0
         /\ detect.std[k] = 5000
         /\ NearestDistance(detect.prior_samples[l], gp.X) >= 50
         /\ detect.std[l] > detect.std[k]

(* the uncertainty the parser works with: the uploaded column, or the      *)
(* default derived from the measured column                                *)
UploadNoise ==
    IF UncertaintyCol \in upload.columns THEN upload.uncertainty
    ELSE DefaultNoise(upload.measured)

(* the four rejection conditions the specification lists *)
ListedRejection ==
    \/ ~(required_cols \subseteq upload.columns)
    \/ upload.rows # RequiredRows
    \/ \E k \in 1..Len(upload.measured) :
          upload.measured[k].kind = "num" /\ upload.measured[k].v <= 0
    \/ \E k \in 1..Len(UploadNoise) :
          UploadNoise[k].kind = "num" /\ UploadNoise[k].v <= 0

(* the file cannot be read, or a cell of a column the parser computes with *)
(* is not a number                                                         *)
Unparsable ==
    \/ ~upload.readable
    \/ \E k \in 1..Len(upload.measured) : upload.measured[k].kind = "text"
    \/ \E k \in 1..Len(upload.uncertainty) : upload.uncertainty[k].kind = "text"

(* C18: parse_uploaded_data returns a failure with no data exactly when a  *)
(* required column is missing, the row count is not 12, a measured value   *)
(* or an uncertainty is <= 0, or the file cannot be read or holds a        *)
(* non-numeric cell; otherwise it returns success with data; data is       *)
(* present exactly on success; every exception becomes a failure result.   *)
C18_ParseOutcome ==
    pc = "parsed" =>
        /\ parsed.success = ~(ListedRejection \/ Unparsable)
        /\ (parsed.data # Nothing) = parsed.success
        /\ parsed.message # ""

(* an uploaded file with 12 rows, all columns and a text cell is rejected  *)
(* through the exception handler                                           *)
C18_Witness ==
    /\ pc = "parsed" /\ upload.readable /\ ~ListedRejection
    /\ ~parsed.success /\ parsed.message = "Error parsing file"
    /\ parsed.data = Nothing

(* C18 as stated: success in every case outside the four listed conditions *)
C18_OnlyListedRejections ==
    pc = "parsed" => (parsed.success = ~ListedRejection)

(* C19: without the 'Uncertainty (kWh)' column each month's uncertainty is *)
(* 5% of that month's measured value; with the column the uploaded values  *)
(* are returned unchanged.                                                 *)
C19_DefaultUncertainty ==
    (pc = "parsed" /\ parsed.success) =>
        LET d == parsed.data[1]
        IN  /\ d.measured_monthly = upload.measured
            /\ Len(d.measurement_noise_std) = RequiredRows
            /\ IF UncertaintyCol \in upload.columns
               THEN d.measurement_noise_std = upload.uncertainty
               ELSE \A k \in 1..RequiredRows :
                      /\ d.measurement_noise_std[k].kind = upload.measured[k].kind
                      /\ d.measured_monthly[k].kind = "num" =>
                            100 * d.measurement_noise_std[k].v
                                = NoisePercent * d.measured_monthly[k].v

(* a file without the uncertainty column was accepted *)
C19_Witness ==
    /\ pc = "parsed" /\ parsed.success
    /\ ~(UncertaintyCol \in upload.columns)
    /\ \A k \in 1..RequiredRows : parsed.data[1].measured_monthly[k].kind = "num"

(* C20: every point is chosen with a surrogate (or a posterior sampled on  *)
(* a surrogate) that was fit on exactly the training data of that moment,  *)
(* and the surrogate of a finished run was fit on the final training data. *)
C20_DecisionsUseCurrentFit ==
    /\ decided_with.made =>
          (decided_with.X = decided_with.atX /\ decided_with.y = decided_with.atY)
    /\ (script \in {"sampler", "calibrator"} /\ pc \in {"done", "inferred"}) =>
          (gp.X = X_train /\ gp.y = y_train)

(* the position in the proposals of the j-th accepted one *)
KthAccepted(accepted, j) ==
    CHOOSE k \in 1..Len(accepted) :
        accepted[k] /\ Cardinality({m \in 1..k : accepted[m]}) = j

(* the number of samples a detection call was asked for *)
NTarget == Len(detect.prior_samples) \div ProposalFactor

(* C21: a detection call for N_target samples draws exactly 10 * N_target  *)
(* proposals inside [0.5, 2.0] and returns the first accepted proposals in *)
(* proposal order, at most N_target of them.                               *)
C21_PosteriorShape ==
    pc \in {"detected", "analyzed"} =>
        LET prior == detect.prior_samples
            nacc == Cardinality({k \in 1..Len(prior) : detect.accepted[k]})
        IN  /\ Len(prior) = ProposalFactor * NTarget
            /\ Len(detect.accepted) = Len(prior)
            /\ \A k \in 1..Len(prior) :
                  infiltration_range[1] <= prior[k]
                      /\ prior[k] <= infiltration_range[2]
            /\ Len(posterior_samples) = IF nacc < NTarget THEN nacc ELSE NTarget
            /\ \A j \in 1..Len(posterior_samples) :
                  posterior_samples[j] = prior[KthAccepted(detect.accepted, j)]

(* more proposals were accepted than samples were asked for *)
C21_Witness ==
    /\ pc = "detected" /\ NTarget >= 1
    /\ Cardinality({k \in 1..Len(detect.prior_samples) : detect.accepted[k]})
           > NTarget
    /\ Len(posterior_samples) = NTarget

(* C22: posterior estimation and counterfactual analysis leave the        *)
(* training data and the fitted surrogate as they were, however often     *)
(* they are called; posterior samples are never appended to the training  *)
(* data.                                                                  *)
C22_EstimateReadOnly ==
    [][(script = "detector" /\ pc \in {"ready", "detected"}) =>
          (X_train' = X_train /\ y_train' = y_train /\ gp' = gp)]_vars

(* an estimate and an analysis have run on a fitted surrogate *)
C22_Witness ==
    /\ script = "detector" /\ pc = "analyzed"
    /\ posterior_samples # <<>> /\ results # <<>>
    /\ gp.X = X_train /\ gp.y = y_train /\ X_train # <<>>

(* every candidate of the pool has std == 0 *)
DegenerateSurrogate == \A c \in 1..NCandidates : acq.sigma[c] = 0

(* C23: with std == 0 at every candidate the acquisition returns a         *)
(* candidate drawn uniformly from the generator, and none of its Z values  *)
(* comes from a division by zero or is NaN.                                *)
C23_DegenerateFallback ==
    (script = "acquisition" /\ pc = "selected" /\ DegenerateSurrogate
        /\ strategy \in {"ei", "uncertainty"}) =>
      /\ acq.next_idx = 1 + RandBelow(RngAt(rng, 1), NCandidates)
      /\ \A c \in 1..Len(acq.Z) : acq.Z[c].kind = "num"

(* C24: acquisition_ucb returns the first index minimising                 *)
(* mean - kappa * std, and the uncertainty strategy an index of maximal    *)
(* std.                                                                    *)
C24_ConfidenceBound ==
    (script = "acquisition" /\ pc = "selected") =>
      /\ strategy = "ucb" =>
            /\ \A c \in 1..NCandidates :
                  acq.mu[acq.next_idx] - kappa * acq.sigma[acq.next_idx]
                      <= acq.mu[c] - kappa * acq.sigma[c]
            /\ \A c \in 1..(acq.next_idx - 1) :
                  acq.mu[acq.next_idx] - kappa * acq.sigma[acq.next_idx]
                      < acq.mu[c] - kappa * acq.sigma[c]
      /\ strategy = "uncertainty" =>
            \A c \in 1..NCandidates : acq.sigma[c] <= acq.sigma[acq.next_idx]

(* the confidence bound prefers the second candidate although the first    *)
(* has the lower mean                                                      *)
C24_Witness ==
    /\ script = "acquisition" /\ pc = "selected" /\ strategy = "ucb"
    /\ acq.mu[1] < acq.mu[2] /\ acq.sigma[1] < acq.sigma[2]
    /\ acq.next_idx = 2

(* C25: an acquisition call leaves the training data, y_best, the          *)
(* surrogate and its predictions as they were, and a repeated call of the  *)
(* same function returns the same index.                                   *)
C25_AcquisitionStateless ==
    [][script = "acquisition" =>
          /\ X_train' = X_train /\ y_train' = y_train
          /\ y_best' = y_best /\ gp' = gp
          /\ acq'.mu = acq.mu /\ acq'.sigma = acq.sigma
          /\ (pc = "selected" /\ strategy' = strategy)
                => acq'.next_idx = acq.next_idx]_vars

(* the same acquisition function was called twice in a row *)
C25_Witness ==
    /\ script = "acquisition" /\ pc = "selected"
    /\ acq.prev.strategy = strategy /\ acq.prev.next_idx = acq.next_idx
    /\ acq.next_idx = 2

(* C26: the DTABM_Baseline entry of the registry, and the baseline file,   *)
(* stay as the constructor made them under every sequence of operations.   *)
C26_BaselineFrozen ==
    script = "dtabm" =>
        /\ dt_registry.DTABM_Baseline = InitialRegistry.DTABM_Baseline
        /\ dt_registry.DTABM_Baseline.status = "frozen"
        /\ dt_registry.DTABM_Baseline.idf_file = Some(baseline_idf)
        /\ [file |-> baseline_idf, lights |-> 100] \in idf_files

(* every operation has run: monthly update, two ECMs, validation, savings *)
C26_Witness ==
    /\ script = "dtabm" /\ tracking # <<>> /\ Len(ecm_calls) = 2
    /\ dt_registry.DTActual.status = "validated" /\ mv_report # Nothing
    /\ dt_registry.DTABM_Operational.last_update = "now"

(* C29: after k implement_ecm calls that returned (k >= 1) DTActual has    *)
(* version 1.k.0, a status set by the first ECM or by validation, and the  *)
(* k ECMs in call order; its version is None exactly when no ECM has been  *)
(* implemented.                                                            *)
C29_DtActualVersion ==
    script = "dtabm" =>
        LET k == Len(ecm_calls)
            actual == dt_registry.DTActual
        IN  /\ (actual.version = Nothing) <=> (k = 0)
            /\ k >= 1 =>
                  /\ actual.version = Some(<<1, k, 0>>)
                  /\ actual.status \in {"active", "validated", "acceptable",
                                         "needs_recalibration"}
                  /\ Len(actual.ecms_implemented) = k
                  /\ \A j \in 1..k :
                        actual.ecms_implemented[j].ecm_name = ecm_calls[j]

(* C27: in the sampler and the calibrator the stored vectors and outcomes  *)
(* have the same length in every state, and the i-th outcome is what the   *)
(* simulator returned for the i-th vector.                                 *)
C27_StoresAligned ==
    script \in {"sampler", "calibrator"} =>
        /\ Len(X_train) = Len(y_train)
        /\ Len(evaluations) = Len(X_train)
        /\ \A k \in 1..Len(X_train) :
              evaluations[k] = [x |-> X_train[k], energy |-> y_train[k]]

(* an iteration has added a point whose outcome differs from the first *)
C27_Witness ==
    /\ script = "sampler" /\ pc \in {"iterating", "done"} /\ iteration >= 1
    /\ Len(X_train) >= 2 /\ y_train[1] # y_train[Len(y_train)]

(* C28: with max_iterations >= 1 an unknown strategy ends                  *)
(* run_adaptive_sampling in its first iteration, before any simulator      *)
(* call, with the training data, y_best and the surrogate as they were;    *)
(* with max_iterations = 0 the loop is empty and the call returns.         *)
C28_UnknownStrategyRaises ==
    [][(script = "sampler" /\ strategy \notin Strategies \cup {None}) =>
          /\ iteration = 0
          /\ pc = "iterating" =>
                /\ pc' = "aborted"
                /\ calls' = calls
                /\ X_train' = X_train /\ y_train' = y_train
                /\ y_best' = y_best /\ gp' = gp
          /\ pc = "done" => max_iterations = 0]_vars

(* the run was aborted by the strategy check with its data in place *)
C28_Witness ==
    /\ script = "sampler" /\ pc = "aborted" /\ strategy = "random"
    /\ X_train # <<>> /\ gp.X = X_train /\ last = "ok"

(* C28 as stated: an unknown strategy never lets the call return *)
C28_AlwaysRaises ==
    (script = "sampler" /\ strategy \notin Strategies \cup {None})
        => pc # "done"

(* C30: uploaded_data is set only to the data of the most recent parse,    *)
(* which succeeded; a calibration runs on the data of a file that parses   *)
(* successfully or on the synthetic data; Reset deletes trace and model    *)
(* and leaves priors and uploaded_data as they were.                       *)
C30_UploadedDataFromSuccess ==
    /\ [](script = "app" =>
            /\ session_state.uploaded_data # Nothing =>
                  (parsed.success /\ session_state.uploaded_data = parsed.data)
            /\ session_state.trace # Nothing =>
                  LET used == session_state.trace[1].used
                  IN  \/ used.data_source = "synthetic" /\ used.data = Nothing
                      \/ /\ used.data_source = "custom"
                         /\ \E f \in AppFiles :
                               /\ ParseUploadedData(f).success
                               /\ ParseUploadedData(f).data = used.data)
    /\ [][(script = "app" /\ last' = "reset") =>
            /\ session_state'.trace = Nothing
            /\ session_state'.model = Nothing
            /\ session_state'.priors = session_state.priors
            /\ session_state'.uploaded_data = session_state.uploaded_data]_vars

(* Reset was clicked after a calibration on uploaded data with moved priors *)
C30_Witness ==
    /\ script = "app" /\ last = "reset"
    /\ session_state.uploaded_data # Nothing
    /\ session_state.priors # DefaultPriors
    /\ session_state.trace = Nothing

====
